---------------------------- MODULE Spec2Model ----------------------------
(***************************************************************************)
(* Model of the case parser's classification decision engine: the keyword  *)
(* rule matcher (patterns/categorization.py), the confidence-gated         *)
(* HybridClassifier (ml/hybrid.py) and the CaseProcessor that writes the   *)
(* procedure category of each row (processor.py).                          *)
(*                                                                         *)
(* Text is a sequence of one-character strings, so that Python's           *)
(* `kw in text` is a real substring test and str.upper() a real            *)
(* conversion.  Confidences are integers in hundredths (0.85 is 85).       *)
(* A category is named by its ProcedureCategory member.                    *)
(***************************************************************************)
EXTENDS Integers, Sequences, FiniteSets, TLC

VARIABLES pc, classifier, call, cases, files, runtime, queue, current_index, metrics, runs, process_config, residents

vars == <<pc, classifier, call, cases, files, runtime, queue, current_index, metrics, runs, process_config, residents>>

\* The state of the training workbench, which the case parser never touches.
tool_vars == <<files, runtime, queue, current_index, metrics, runs>>

\* The state of a batch run.
batch_vars == <<process_config, residents>>

\* Longest service list passed to the rule engine.
MaxServices == 2
\* Rows of one input table.
MaxRows == 2

(***************************************************************************)
(* Python values and string primitives                                     *)
(***************************************************************************)
\* The elements of a sequence.
Range(seq) == {seq[i] : i \in DOMAIN seq}

\* Python's None where a text is expected (no text has a character "None").
None == <<"None">>
\* Python's None where a category or a predictor is expected.
NoValue == "None"

\* str.upper() on the lower-case letters; every other character is kept.
UpperMap ==
    "a" :> "A" @@ "b" :> "B" @@ "c" :> "C" @@ "d" :> "D" @@ "e" :> "E" @@
    "f" :> "F" @@ "g" :> "G" @@ "h" :> "H" @@ "i" :> "I" @@ "j" :> "J" @@
    "k" :> "K" @@ "l" :> "L" @@ "m" :> "M" @@ "n" :> "N" @@ "o" :> "O" @@
    "p" :> "P" @@ "q" :> "Q" @@ "r" :> "R" @@ "s" :> "S" @@ "t" :> "T" @@
    "u" :> "U" @@ "v" :> "V" @@ "w" :> "W" @@ "x" :> "X" @@ "y" :> "Y" @@
    "z" :> "Z"

upper_char(c) == IF c \in DOMAIN UpperMap THEN UpperMap[c] ELSE c

\* str.upper()
RECURSIVE upper(_)
upper(text) ==
    IF text = << >> THEN << >>
    ELSE << upper_char(Head(text)) >> \o upper(Tail(text))

\* Python's `kw in text` for strings.
Contains(text, kw) ==
    \E i \in 1..(Len(text) - Len(kw) + 1) :
        \A k \in 1..Len(kw) : text[i + k - 1] = kw[k]

\* any(kw in text for kw in keywords)
any_in(keywords, text) == \E k \in DOMAIN keywords : Contains(text, keywords[k])

\* pd.isna(value) for a value that is a string or None.
isna(value) == value = None

\* `x in list`
in_list(x, list) == \E i \in DOMAIN list : list[i] = x

(***************************************************************************)
(* The taxonomy                                                            *)
(***************************************************************************)
\* The eleven leaf categories, in the canonical order of the review tools.
CATEGORIES ==
    << "CARDIAC_WITH_CPB", "CARDIAC_WITHOUT_CPB",
       "MAJOR_VESSELS_ENDOVASCULAR", "MAJOR_VESSELS_OPEN",
       "INTRACEREBRAL_ENDOVASCULAR", "INTRACEREBRAL_VASCULAR_OPEN",
       "INTRACEREBRAL_NONVASCULAR_OPEN", "CESAREAN", "VAGINAL_DELIVERY",
       "INTRATHORACIC_NON_CARDIAC", "OTHER" >>

Taxonomy == {CATEGORIES[i] : i \in DOMAIN CATEGORIES}

\* The string label (StrEnum value) of each member.
CategoryValue(member) ==
    CASE member = "CARDIAC_WITH_CPB" -> <<"C","a","r","d","i","a","c"," ","w","i","t","h"," ","C","P","B">>
      [] member = "CARDIAC_WITHOUT_CPB" -> <<"C","a","r","d","i","a","c"," ","w","i","t","h","o","u","t"," ","C","P","B">>
      [] member = "MAJOR_VESSELS_ENDOVASCULAR" -> <<"P","r","o","c","e","d","u","r","e","s"," ","M","a","j","o","r"," ","V","e","s","s","e","l","s"," ","-"," ","e","n","d","o","v","a","s","c","u","l","a","r">>
      [] member = "MAJOR_VESSELS_OPEN" -> <<"P","r","o","c","e","d","u","r","e","s"," ","M","a","j","o","r"," ","V","e","s","s","e","l","s"," ","-"," ","o","p","e","n">>
      [] member = "INTRACEREBRAL_ENDOVASCULAR" -> <<"I","n","t","r","a","c","e","r","e","b","r","a","l"," ","(","e","n","d","o","v","a","s","c","u","l","a","r",")">>
      [] member = "INTRACEREBRAL_VASCULAR_OPEN" -> <<"I","n","t","r","a","c","e","r","e","b","r","a","l"," ","V","a","s","c","u","l","a","r"," ","(","o","p","e","n",")">>
      [] member = "INTRACEREBRAL_NONVASCULAR_OPEN" -> <<"I","n","t","r","a","c","e","r","e","b","r","a","l"," ","N","o","n","v","a","s","c","u","l","a","r"," ","(","o","p","e","n",")">>
      [] member = "CESAREAN" -> <<"C","e","s","a","r","e","a","n"," ","d","e","l">>
      [] member = "VAGINAL_DELIVERY" -> <<"V","a","g","i","n","a","l"," ","d","e","l">>
      [] member = "INTRATHORACIC_NON_CARDIAC" -> <<"I","n","t","r","a","t","h","o","r","a","c","i","c"," ","n","o","n","-","c","a","r","d","i","a","c">>
      [] member = "OTHER" -> <<"O","t","h","e","r"," ","(","p","r","o","c","e","d","u","r","e"," ","c","a","t",")">>

(***************************************************************************)
(* Keyword tables                                                          *)
(***************************************************************************)
\* Procedure categorization rules in priority order.
PROCEDURE_RULES ==
    << [keywords |-> << <<"C","A","R","D","I","A","C">> >>, category |-> "Cardiac",
        exclude_keywords |-> << >>],
       [keywords |-> << <<"N","E","U","R","O">> >>, category |-> "Intracerebral",
        exclude_keywords |-> << >>],
       [keywords |-> << <<"T","H","O","R">> >>, category |-> "Intrathoracic non-cardiac",
        exclude_keywords |-> << <<"C","A","R","D">> >>],
       [keywords |-> << <<"V","A","S","C">> >>, category |-> "Procedures Major Vessels",
        exclude_keywords |-> << >>],
       [keywords |-> << <<"T","R","A","N","S","P","L","A","N","T">> >>, category |-> "Other (procedure cat)",
        exclude_keywords |-> << >>] >>

no_cpb_keywords ==
    << <<"T","A","V","R">>, <<"T","A","V","I">>, <<"T","R","A","N","S","C","A","T","H","E","T","E","R">>, <<"O","F","F","-","P","U","M","P">>, <<"O","F","F"," ","P","U","M","P">>,
       <<"O","P","C","A","B">>, <<"B","E","A","T","I","N","G"," ","H","E","A","R","T">>, <<"R","E","M","O","V","A","L"," ","V","E","N","T","R","I","C","U","L","A","R"," ","A","S","S","I","S","T"," ","D","E","V","I","C","E">>,
       <<"R","E","M","O","V","A","L"," ","I","M","P","L","A","N","T">>, <<"P","E","R","C","U","T","A","N","E","O","U","S">> >>

cpb_keywords ==
    << <<"B","Y","P","A","S","S">>, <<"C","P","B">>, <<"P","U","M","P">>, <<"O","N","-","P","U","M","P">>, <<"O","N"," ","P","U","M","P">>,
       <<"C","A","R","D","I","O","P","U","L","M","O","N","A","R","Y"," ","B","Y","P","A","S","S">> >>

cesarean_keywords == << <<"C","E","S","A","R","E","A","N">>, <<"C","-","S","E","C","T","I","O","N">>, <<"C"," ","S","E","C","T","I","O","N">> >>

vaginal_keywords == << <<"L","A","B","O","R"," ","E","P","I","D","U","R","A","L">>, <<"V","A","G","I","N","A","L">>, <<"D","E","L","I","V","E","R","Y">>, <<"L","A","B","O","R">> >>

obgyn_service_keywords == << <<"G","Y","N">>, <<"O","B">>, <<"O","B","S","T","E","T">> >>

LABOR_EPIDURAL == <<"L","A","B","O","R"," ","E","P","I","D","U","R","A","L">>

\* Approach and pathology keyword sets (approach_patterns).
ENDOVASCULAR_KEYWORDS ==
    << <<"P","E","R","C","U","T","A","N","E","O","U","S">>, <<"C","A","T","H","E","T","E","R">>, <<"E","N","D","O","V","A","S","C","U","L","A","R">>, <<"S","T","E","N","T">> >>

OPEN_KEYWORDS == << <<"O","P","E","N">> >>

VASCULAR_PATHOLOGY_KEYWORDS == << <<"A","N","E","U","R","Y","S","M">> >>

NONVASCULAR_PATHOLOGY_KEYWORDS == << <<"T","U","M","O","R">> >>

(***************************************************************************)
(* Subcategory resolvers                                                   *)
(***************************************************************************)
\* Endovascular terms are checked first; "none" when neither set matches.
detect_approach(procedure_text) ==
    IF any_in(ENDOVASCULAR_KEYWORDS, upper(procedure_text)) THEN "endovascular"
    ELSE IF any_in(OPEN_KEYWORDS, upper(procedure_text)) THEN "open"
    ELSE "none"

detect_intracerebral_pathology(procedure_text) ==
    IF any_in(VASCULAR_PATHOLOGY_KEYWORDS, upper(procedure_text)) THEN "vascular"
    ELSE IF any_in(NONVASCULAR_PATHOLOGY_KEYWORDS, upper(procedure_text))
         THEN "nonvascular"
    ELSE "none"

\* categorize_cardiac with the CPB check ahead of the no-CPB check.
categorize_cardiac_cpb_first(procedure_text) ==
    LET has_no_cpb == any_in(no_cpb_keywords, procedure_text)
        has_cpb == any_in(cpb_keywords, procedure_text)
    IN  IF has_cpb THEN "CARDIAC_WITH_CPB"
        ELSE IF has_no_cpb THEN "CARDIAC_WITHOUT_CPB"
        ELSE "CARDIAC_WITH_CPB"

categorize_cardiac(procedure_text) ==
    LET has_no_cpb == any_in(no_cpb_keywords, procedure_text)
        has_cpb == any_in(cpb_keywords, procedure_text)
    IN  IF has_no_cpb THEN "CARDIAC_WITHOUT_CPB"
        ELSE IF has_cpb THEN "CARDIAC_WITH_CPB"
        ELSE "CARDIAC_WITH_CPB"

categorize_vascular(procedure_text) ==
    IF detect_approach(procedure_text) = "endovascular"
    THEN "MAJOR_VESSELS_ENDOVASCULAR"
    ELSE "MAJOR_VESSELS_OPEN"

categorize_intracerebral(procedure_text) ==
    LET approach == detect_approach(procedure_text)
        pathology == detect_intracerebral_pathology(procedure_text)
    IN  IF approach = "endovascular" THEN "INTRACEREBRAL_ENDOVASCULAR"
        ELSE IF approach = "open"
             THEN IF pathology = "vascular" THEN "INTRACEREBRAL_VASCULAR_OPEN"
                  ELSE IF pathology = "nonvascular"
                       THEN "INTRACEREBRAL_NONVASCULAR_OPEN"
                  ELSE "INTRACEREBRAL_VASCULAR_OPEN"
        ELSE "INTRACEREBRAL_NONVASCULAR_OPEN"

categorize_obgyn(procedure_text) ==
    IF any_in(cesarean_keywords, procedure_text) THEN "CESAREAN"
    ELSE IF any_in(vaginal_keywords, procedure_text) THEN "VAGINAL_DELIVERY"
    ELSE "OTHER"

apply_rule_category(rule_category, procedure_text) ==
    IF rule_category = "Cardiac" THEN categorize_cardiac(procedure_text)
    ELSE IF rule_category = "Procedures Major Vessels"
         THEN categorize_vascular(procedure_text)
    ELSE IF rule_category = "Intracerebral"
         THEN categorize_intracerebral(procedure_text)
    ELSE IF rule_category = "Intrathoracic non-cardiac"
         THEN "INTRATHORACIC_NON_CARDIAC"
    ELSE "OTHER"

(***************************************************************************)
(* The rule engine                                                         *)
(***************************************************************************)
\* `if category not in categories: categories.append(category)`
append_if_new(categories, category) ==
    IF in_list(category, categories) THEN categories
    ELSE Append(categories, category)

\* The rule loop without its `break`: every applicable rule contributes.
RECURSIVE match_rules_from_no_break(_, _, _, _)
match_rules_from_no_break(r, service_upper, procedure_text, categories) ==
    IF r > Len(PROCEDURE_RULES) THEN categories
    ELSE LET rule == PROCEDURE_RULES[r]
         IN  IF ~any_in(rule.keywords, service_upper)
             THEN match_rules_from_no_break(r + 1, service_upper, procedure_text,
                                            categories)
             ELSE IF rule.exclude_keywords # << >>
                     /\ \E e \in DOMAIN rule.exclude_keywords :
                           \/ Contains(service_upper, rule.exclude_keywords[e])
                           \/ Contains(procedure_text, rule.exclude_keywords[e])
             THEN match_rules_from_no_break(r + 1, service_upper, procedure_text,
                                            categories)
             ELSE match_rules_from_no_break(
                      r + 1, service_upper, procedure_text,
                      append_if_new(categories,
                                    apply_rule_category(rule.category, procedure_text)))

\* The inner `for rule in PROCEDURE_RULES` loop of the service matcher from
\* rule r on: the categories after the loop's `break` or its end.
RECURSIVE match_rules_from(_, _, _, _)
match_rules_from(r, service_upper, procedure_text, categories) ==
    IF r > Len(PROCEDURE_RULES) THEN categories
    ELSE LET rule == PROCEDURE_RULES[r]
         IN  IF ~any_in(rule.keywords, service_upper)
             THEN match_rules_from(r + 1, service_upper, procedure_text, categories)
             ELSE IF rule.exclude_keywords # << >>
                     /\ \E e \in DOMAIN rule.exclude_keywords :
                           \/ Contains(service_upper, rule.exclude_keywords[e])
                           \/ Contains(procedure_text, rule.exclude_keywords[e])
             THEN match_rules_from(r + 1, service_upper, procedure_text, categories)
             ELSE append_if_new(categories,
                                apply_rule_category(rule.category, procedure_text))

\* One iteration with the OB/GYN check skipped when a rule matched the service.
match_one_service_rule_or_obgyn(service, procedure_text, categories) ==
    IF \E r \in DOMAIN PROCEDURE_RULES :
          /\ any_in(PROCEDURE_RULES[r].keywords, upper(service))
          /\ ~any_in(PROCEDURE_RULES[r].exclude_keywords, upper(service))
          /\ ~any_in(PROCEDURE_RULES[r].exclude_keywords, procedure_text)
    THEN match_rules_from(1, upper(service), procedure_text, categories)
    ELSE IF any_in(obgyn_service_keywords, upper(service))
    THEN append_if_new(categories, categorize_obgyn(procedure_text))
    ELSE categories

\* One iteration of `for service in services`: the rule loop, then the
\* OB/GYN check.
match_one_service(service, procedure_text, categories) ==
    LET service_upper == upper(service)
        after_rules == match_rules_from(1, service_upper, procedure_text, categories)
    IN  IF any_in(obgyn_service_keywords, service_upper)
        THEN append_if_new(after_rules, categorize_obgyn(procedure_text))
        ELSE after_rules

RECURSIVE match_services_from(_, _, _, _)
match_services_from(s, services, procedure_text, categories) ==
    IF s > Len(services) THEN categories
    ELSE match_services_from(s + 1, services, procedure_text,
                             match_one_service(services[s], procedure_text, categories))

match_services_to_categories(services, procedure_text) ==
    match_services_from(1, services, procedure_text, << >>)

\* The text fallback with the OB/GYN resolver asked before the rules.
fallback_obgyn_first(procedure_text) ==
    IF categorize_obgyn(procedure_text) # "OTHER"
    THEN << categorize_obgyn(procedure_text) >>
    ELSE LET matching == { r \in DOMAIN PROCEDURE_RULES :
                             /\ any_in(PROCEDURE_RULES[r].keywords, procedure_text)
                             /\ ~any_in(PROCEDURE_RULES[r].exclude_keywords,
                                        procedure_text) }
         IN  IF matching = {} THEN << >>
             ELSE << apply_rule_category(
                        PROCEDURE_RULES[CHOOSE r \in matching :
                                           \A q \in matching : r <= q].category,
                        procedure_text) >>

RECURSIVE fallback_rules_from(_, _)
fallback_rules_from(r, procedure_text) ==
    IF r > Len(PROCEDURE_RULES)
    THEN IF categorize_obgyn(procedure_text) # "OTHER"
         THEN << categorize_obgyn(procedure_text) >>
         ELSE << >>
    ELSE LET rule == PROCEDURE_RULES[r]
         IN  IF ~any_in(rule.keywords, procedure_text)
             THEN fallback_rules_from(r + 1, procedure_text)
             ELSE IF rule.exclude_keywords # << >>
                     /\ any_in(rule.exclude_keywords, procedure_text)
             THEN fallback_rules_from(r + 1, procedure_text)
             ELSE << apply_rule_category(rule.category, procedure_text) >>

fallback_categories_from_text(procedure_text) == fallback_rules_from(1, procedure_text)

\* The "Multiple procedure categories detected ..." warning.
MultipleCategoriesWarning(services, categories) ==
    [kind |-> "Multiple procedure categories", services |-> services,
     categories |-> categories, first |-> categories[1]]

\* The labor-epidural override, applied only when nothing was accumulated.
labor_epidural_override_empty_only(categories, procedure_text) ==
    IF categories = << >> /\ Contains(procedure_text, LABOR_EPIDURAL)
    THEN << "VAGINAL_DELIVERY" >>
    ELSE categories

\* The labor-epidural override, on the categories accumulated so far.
labor_epidural_override(categories, procedure_text) ==
    IF (categories = << >> \/ categories = << "OTHER" >>)
       /\ Contains(procedure_text, LABOR_EPIDURAL)
    THEN << "VAGINAL_DELIVERY" >>
    ELSE categories

\* The returns of categorize_procedure, with None returned when nothing
\* was accumulated.
select_category_no_default(services, categories) ==
    IF Len(categories) > 1
    THEN [category |-> categories[1],
          warnings |-> << MultipleCategoriesWarning(services, categories) >>]
    ELSE IF Len(categories) = 1
    THEN [category |-> categories[1], warnings |-> << >>]
    ELSE [category |-> NoValue, warnings |-> << >>]

\* The returns of categorize_procedure, using the last category found.
select_category_last(services, categories) ==
    IF Len(categories) > 1
    THEN [category |-> categories[Len(categories)],
          warnings |-> << MultipleCategoriesWarning(services, categories) >>]
    ELSE IF Len(categories) = 1
    THEN [category |-> categories[1], warnings |-> << >>]
    ELSE [category |-> "OTHER", warnings |-> << >>]

\* The returns of categorize_procedure: (category, warnings).
select_category(services, categories) ==
    IF Len(categories) > 1
    THEN [category |-> categories[1],
          warnings |-> << MultipleCategoriesWarning(services, categories) >>]
    ELSE IF Len(categories) = 1
    THEN [category |-> categories[1], warnings |-> << >>]
    ELSE [category |-> "OTHER", warnings |-> << >>]

\* The end of categorize_procedure: the returned pair (category, warnings),
\* with the function's locals kept for the properties.
\*   matched     : categories after _match_services_to_categories
\*   accumulated : categories after the text fallback
\*   categories  : categories after the labor-epidural override
categorize_result(procedure_text, matched, accumulated, categories, returned) ==
    [ procedure_text |-> procedure_text,
      matched |-> matched,
      accumulated |-> accumulated,
      categories |-> categories,
      category |-> returned.category,
      warnings |-> returned.warnings ]

\* categorize_procedure from the labor-epidural override on.
categorize_after_fallback(procedure_text, services, matched, accumulated, categories) ==
    categorize_result(procedure_text, matched, accumulated, categories,
                      select_category(services, categories))

\* categorize_procedure from `if not categories and procedure_text` on.
categorize_after_match(procedure_text, services, matched, accumulated) ==
    categorize_after_fallback(procedure_text, services, matched, accumulated,
                              labor_epidural_override(accumulated, procedure_text))

\* categorize_procedure on the upper-cased text.
categorize_text(procedure_text, services, matched) ==
    categorize_after_match(procedure_text, services, matched,
                           IF matched = << >> /\ procedure_text # << >>
                           THEN fallback_categories_from_text(procedure_text)
                           ELSE matched)

\* `"" if pd.isna(procedure) else str(procedure).upper()`
procedure_text_of(procedure) ==
    IF isna(procedure) THEN << >> ELSE upper(procedure)

\* categorize_procedure(procedure, services)
categorize_procedure(procedure, services) ==
    categorize_text(procedure_text_of(procedure), services,
                    match_services_to_categories(services,
                                                 procedure_text_of(procedure)))

(***************************************************************************)
(* HybridClassifier                                                        *)
(***************************************************************************)
\* Confidence at and above which ML overrides the rules.
ML_OVERRIDE_CONFIDENCE == 85
\* Default of ml_threshold.
DEFAULT_ML_THRESHOLD == 70
\* Confidence reported for a rule result with warnings / without / agreed.
RULES_CONFIDENCE_WARNED == 80
RULES_CONFIDENCE_CLEAN == 100
RULES_ML_AGREE_CONFIDENCE == 90

\* ml_predictor = None
NoPredictor == [loaded |-> FALSE]

\* The characters str.strip() removes.
Whitespace == {" ", "\t", "\n", "\r"}

\* str.strip()
RECURSIVE strip(_)
strip(text) ==
    IF text = << >> THEN text
    ELSE IF Head(text) \in Whitespace THEN strip(Tail(text))
    ELSE IF text[Len(text)] \in Whitespace THEN strip(SubSeq(text, 1, Len(text) - 1))
    ELSE text

\* ProcedureCategory(value): the member with that value; "ValueError" when
\* there is none.
ProcedureCategory(value) ==
    IF \E m \in Taxonomy : CategoryValue(m) = value
    THEN CHOOSE m \in Taxonomy : CategoryValue(m) = value
    ELSE "ValueError"

\* The override test with the boundary excluded.
ml_overrides_strict(ml_confidence) == ml_confidence > ML_OVERRIDE_CONFIDENCE

\* `ml_confidence >= 0.85`
ml_overrides(ml_confidence) == ml_confidence >= ML_OVERRIDE_CONFIDENCE

\* The threshold test with the boundary excluded.
ml_influences_strict(self, ml_confidence) == ml_confidence > self.ml_threshold

\* `ml_confidence >= self.ml_threshold`
ml_influences(self, ml_confidence) == ml_confidence >= self.ml_threshold

\* The two rule confidences exchanged.
rule_confidence_swapped(rule_warnings) ==
    IF rule_warnings # << >> THEN RULES_CONFIDENCE_CLEAN ELSE RULES_CONFIDENCE_WARNED

\* `0.8 if rule_warnings else 1.0`
rule_confidence(rule_warnings) ==
    IF rule_warnings # << >> THEN RULES_CONFIDENCE_WARNED ELSE RULES_CONFIDENCE_CLEAN

\* services = None, the default of classify's second parameter.
NoServices == << None >>

\* `services or []`
services_or_empty(services) ==
    IF services = NoServices \/ services = << >> THEN << >> ELSE services

\* HybridClassifier.classify after the rule step and the two predictor
\* calls: the decision.
classify_decision(self, rule_category, rule_warnings, ml_category_str, ml_confidence, ml_category) ==
    IF ~self.ml_predictor.loaded
    THEN [category |-> rule_category, method |-> "rules",
          confidence |-> rule_confidence(rule_warnings),
          alternative |-> NoValue, warnings |-> rule_warnings]
    ELSE IF ml_category = "ValueError"
    THEN [category |-> rule_category, method |-> "rules",
          confidence |-> rule_confidence(rule_warnings),
          alternative |-> NoValue,
          warnings |-> Append(rule_warnings,
                              [kind |-> "ML returned invalid category",
                               label |-> ml_category_str])]
    ELSE IF ml_overrides(ml_confidence)
    THEN [category |-> ml_category, method |-> "ml_override",
          confidence |-> ml_confidence,
          alternative |-> IF ml_category # rule_category
                          THEN rule_category ELSE NoValue,
          warnings |-> IF ml_category # rule_category
                       THEN Append(rule_warnings,
                                   [kind |-> "ML override",
                                    conf |-> ml_confidence,
                                    rules |-> rule_category])
                       ELSE rule_warnings]
    ELSE IF ml_influences(self, ml_confidence)
    THEN IF ml_category # rule_category
         THEN [category |-> rule_category, method |-> "rules_flagged",
               confidence |-> rule_confidence(rule_warnings),
               alternative |-> ml_category,
               warnings |-> Append(rule_warnings,
                                   [kind |-> "ML suggests",
                                    ml |-> ml_category,
                                    conf |-> ml_confidence])]
         ELSE [category |-> rule_category, method |-> "rules_ml_agree",
               confidence |-> RULES_ML_AGREE_CONFIDENCE,
               alternative |-> NoValue, warnings |-> rule_warnings]
    ELSE [category |-> rule_category, method |-> "rules",
          confidence |-> rule_confidence(rule_warnings),
          alternative |-> NoValue, warnings |-> rule_warnings]

\* classify with the warning of an override or a disagreement left out.
classify_with_rule_silent(self, rule) ==
    [ classify_decision(self, rule.category, rule.warnings,
                        strip(self.ml_predictor.label),
                        self.ml_predictor.confidence,
                        ProcedureCategory(strip(self.ml_predictor.label)))
        EXCEPT !.warnings = rule.warnings ]

\* HybridClassifier.classify after the rule step.  The pipeline's answer for
\* the text is the label and confidence the loaded predictor carries.
classify_with_rule(self, rule) ==
    classify_decision(self, rule.category, rule.warnings,
                      strip(self.ml_predictor.label),
                      self.ml_predictor.confidence,
                      ProcedureCategory(strip(self.ml_predictor.label)))

\* HybridClassifier.classify(procedure_text, services)
classify(self, procedure_text, services) ==
    classify_with_rule(self, categorize_procedure(procedure_text,
                                                  services_or_empty(services)))

\* MLPredictor.load on what is at model_path: the predictor, a raised
\* FileNotFoundError when nothing is there, a raised ValueError when the
\* artifact holds no pipeline.
MLPredictor_load(artifact) ==
    IF artifact.kind = "missing" THEN [raised |-> "FileNotFoundError"]
    ELSE IF artifact.kind = "no_pipeline" THEN [raised |-> "ValueError"]
    ELSE [loaded |-> TRUE, label |-> artifact.label,
          confidence |-> artifact.confidence]

\* HybridClassifier.load without the `model_path.exists()` test.
HybridClassifier_load_unguarded(artifact, ml_threshold) ==
    IF "raised" \in DOMAIN MLPredictor_load(artifact)
    THEN MLPredictor_load(artifact)
    ELSE [constructed |-> TRUE, ml_predictor |-> MLPredictor_load(artifact),
          ml_threshold |-> ml_threshold]

\* The predictor HybridClassifier.load obtains: none unless the path exists.
load_ml_predictor(artifact) ==
    IF artifact.kind # "missing" THEN MLPredictor_load(artifact) ELSE NoPredictor

\* `cls(ml_predictor=ml_predictor, ml_threshold=ml_threshold)`, or the
\* exception MLPredictor.load raised.
HybridClassifier_new(ml_predictor, ml_threshold) ==
    IF "raised" \in DOMAIN ml_predictor THEN ml_predictor
    ELSE [constructed |-> TRUE, ml_predictor |-> ml_predictor,
          ml_threshold |-> ml_threshold]

\* HybridClassifier.load on what is at model_path.
HybridClassifier_load(artifact, ml_threshold) ==
    HybridClassifier_new(load_ml_predictor(artifact), ml_threshold)

\* get_hybrid_classifier(ml_threshold=...): the default model path.
get_hybrid_classifier(artifact, ml_threshold) ==
    HybridClassifier_load(artifact, ml_threshold)

\* CaseProcessor.__init__: the classifier it keeps.
CaseProcessor_init(use_ml, artifact, ml_threshold) ==
    IF use_ml THEN get_hybrid_classifier(artifact, ml_threshold)
    ELSE [constructed |-> TRUE, ml_predictor |-> NoPredictor,
          ml_threshold |-> DEFAULT_ML_THRESHOLD]

(***************************************************************************)
(* CaseProcessor                                                           *)
(***************************************************************************)
\* str.split("\n")
RECURSIVE split_lines(_)
split_lines(text) ==
    IF \E i \in DOMAIN text : text[i] = "\n"
    THEN LET i == CHOOSE j \in DOMAIN text :
                     text[j] = "\n" /\ \A k \in 1..(j - 1) : text[k] # "\n"
         IN  << SubSeq(text, 1, i - 1) >> \o split_lines(SubSeq(text, i + 1, Len(text)))
    ELSE << text >>

\* [s.strip() for s in str(raw_services).split("\n") if s.strip()]
RECURSIVE stripped_nonempty(_)
stripped_nonempty(lines) ==
    IF lines = << >> THEN << >>
    ELSE IF strip(Head(lines)) # << >>
         THEN << strip(Head(lines)) >> \o stripped_nonempty(Tail(lines))
         ELSE stripped_nonempty(Tail(lines))

parse_services(raw_services) ==
    IF isna(raw_services) THEN << >>
    ELSE stripped_nonempty(split_lines(raw_services))

\* CaseProcessor.determine_procedure_category
determine_procedure_category(procedure, services) ==
    categorize_procedure(procedure, services)

\* The part of process_row that decides the case's procedure category:
\* the parsed services, the category and the category's warnings.
process_row(self, row) ==
    LET services == parse_services(row.services)
        determined == determine_procedure_category(row.procedure, services)
    IN  [ procedure |-> row.procedure,
          services |-> services,
          procedure_category |-> determined.category,
          parsing_warnings |-> determined.warnings ]


NoClassifier == [constructed |-> FALSE]

(***************************************************************************)
(* Training tools: label normalisation (ml_training/utils.py)              *)
(***************************************************************************)
\* The name of each ProcedureCategory member, as text.
MemberName(member) ==
    CASE member = "CARDIAC_WITH_CPB" -> <<"C","A","R","D","I","A","C","_","W","I","T","H","_","C","P","B">>
      [] member = "CARDIAC_WITHOUT_CPB" -> <<"C","A","R","D","I","A","C","_","W","I","T","H","O","U","T","_","C","P","B">>
      [] member = "MAJOR_VESSELS_ENDOVASCULAR" -> <<"M","A","J","O","R","_","V","E","S","S","E","L","S","_","E","N","D","O","V","A","S","C","U","L","A","R">>
      [] member = "MAJOR_VESSELS_OPEN" -> <<"M","A","J","O","R","_","V","E","S","S","E","L","S","_","O","P","E","N">>
      [] member = "INTRACEREBRAL_ENDOVASCULAR" -> <<"I","N","T","R","A","C","E","R","E","B","R","A","L","_","E","N","D","O","V","A","S","C","U","L","A","R">>
      [] member = "INTRACEREBRAL_VASCULAR_OPEN" -> <<"I","N","T","R","A","C","E","R","E","B","R","A","L","_","V","A","S","C","U","L","A","R","_","O","P","E","N">>
      [] member = "INTRACEREBRAL_NONVASCULAR_OPEN" -> <<"I","N","T","R","A","C","E","R","E","B","R","A","L","_","N","O","N","V","A","S","C","U","L","A","R","_","O","P","E","N">>
      [] member = "CESAREAN" -> <<"C","E","S","A","R","E","A","N">>
      [] member = "VAGINAL_DELIVERY" -> <<"V","A","G","I","N","A","L","_","D","E","L","I","V","E","R","Y">>
      [] member = "INTRATHORACIC_NON_CARDIAC" -> <<"I","N","T","R","A","T","H","O","R","A","C","I","C","_","N","O","N","_","C","A","R","D","I","A","C">>
      [] member = "OTHER" -> <<"O","T","H","E","R">>

QUALIFIED_PREFIX == <<"P","r","o","c","e","d","u","r","e","C","a","t","e","g","o","r","y",".">>

\* str.startswith
startswith(text, prefix) ==
    /\ Len(text) >= Len(prefix)
    /\ \A k \in 1..Len(prefix) : text[k] = prefix[k]

\* `normalized.split(".", 1)[1]` on a text that holds a ".": what follows
\* the first ".".
after_first_dot(text) ==
    LET i == CHOOSE j \in DOMAIN text :
                 text[j] = "." /\ \A k \in 1..(j - 1) : text[k] # "."
    IN  SubSeq(text, i + 1, Len(text))

\* `member_name in ProcedureCategory.__members__`
is_member_name(member_name) == \E m \in Taxonomy : MemberName(m) = member_name

\* `ProcedureCategory[member_name].value`
value_of_member_name(member_name) ==
    CategoryValue(CHOOSE m \in Taxonomy : MemberName(m) = member_name)

\* The normaliser returning the member's name instead of its value.
normalize_stripped_member_name(normalized) ==
    IF startswith(normalized, QUALIFIED_PREFIX)
       /\ is_member_name(after_first_dot(normalized))
    THEN after_first_dot(normalized)
    ELSE normalized

\* normalize_category_label after `normalized = category.strip()`.
normalize_stripped(normalized) ==
    IF startswith(normalized, QUALIFIED_PREFIX)
       /\ is_member_name(after_first_dot(normalized))
    THEN value_of_member_name(after_first_dot(normalized))
    ELSE normalized

\* normalize_category_label(category)
normalize_category_label(category) ==
    IF category = None THEN CategoryValue("OTHER")
    ELSE normalize_stripped(strip(category))

(***************************************************************************)
(* Review workbench (ml_training/workbench.py): files, queue, decisions    *)
(***************************************************************************)
\* A path with no file, and a path holding a file with the given content.
Absent == [exists |-> FALSE]

FileOf(content) == [exists |-> TRUE, content |-> content]

\* utils.CATEGORIES: the category values in menu order.
LABEL_CATEGORIES == [i \in DOMAIN CATEGORIES |-> CategoryValue(CATEGORIES[i])]

\* _autosave_if_needed saves when len(staged_labels) % 10 == 0.
AUTOSAVE_PERIOD == 10

\* The confidence every review label is recorded with (_label_record).
REVIEW_LABEL_CONFIDENCE == 3

DATA_PATH == "unseen_eval.csv"

MODEL_PATH == "procedure_classifier.pkl"

\* dict.get(key, default) on a parsed JSON object.
dict_get(payload, key, default) ==
    IF key \in DOMAIN payload THEN payload[key] ELSE default

\* sorted(set_of_int)
RECURSIVE sorted(_)
sorted(indices) ==
    IF indices = {} THEN << >>
    ELSE LET least == CHOOSE i \in indices : \A j \in indices : i <= j
         IN  << least >> \o sorted(indices \ {least})

rule_prediction_for_procedure(procedure) ==
    normalize_category_label(CategoryValue(categorize_procedure(procedure, << >>).category))

ReviewCase(index, procedure, ml_prediction, ml_confidence, rule_prediction) ==
    [ index |-> index,
      procedure |-> procedure,
      ml_prediction |-> ml_prediction,
      ml_confidence |-> ml_confidence,
      rule_prediction |-> rule_prediction,
      disagreement |-> ml_prediction # rule_prediction ]

build_review_case(index, procedure, ml_prediction_raw, ml_confidence) ==
    ReviewCase(index, procedure, normalize_category_label(ml_prediction_raw),
               ml_confidence, rule_prediction_for_procedure(procedure))

\* The focus filter with a confidence at the threshold counted as low.
should_include_case_at_most(case, focus, low_confidence) ==
    IF focus = "disagreement" THEN case.disagreement
    ELSE IF focus = "low_confidence" THEN case.ml_confidence <= low_confidence
    ELSE IF focus = "priority"
         THEN case.disagreement \/ case.ml_confidence <= low_confidence
    ELSE TRUE

should_include_case(case, focus, low_confidence) ==
    IF focus = "disagreement" THEN case.disagreement
    ELSE IF focus = "low_confidence" THEN case.ml_confidence < low_confidence
    ELSE IF focus = "priority"
         THEN case.disagreement \/ case.ml_confidence < low_confidence
    ELSE TRUE

\* The key cases.sort orders by: (not disagreement, ml_confidence).
sort_key_le(a, b) ==
    \/ a.disagreement /\ ~b.disagreement
    \/ a.disagreement = b.disagreement /\ a.ml_confidence <= b.ml_confidence

\* list.sort is stable: an item goes after every item whose key is not larger.
RECURSIVE insert_sorted(_, _)
insert_sorted(sorted_cases, case) ==
    IF sorted_cases = << >> THEN << case >>
    ELSE IF sort_key_le(Head(sorted_cases), case)
         THEN << Head(sorted_cases) >> \o insert_sorted(Tail(sorted_cases), case)
         ELSE << case >> \o sorted_cases

RECURSIVE stable_sort(_)
stable_sort(items) ==
    IF items = << >> THEN << >>
    ELSE insert_sorted(stable_sort(SubSeq(items, 1, Len(items) - 1)), items[Len(items)])

\* The loop of _load_review_cases over rows idx = from..len-1 (0-based index).
RECURSIVE load_cases_from(_, _, _, _)
load_cases_from(rows, from, focus, low_confidence) ==
    IF from > Len(rows) THEN << >>
    ELSE IF strip(rows[from].procedure) = << >>
         THEN load_cases_from(rows, from + 1, focus, low_confidence)
         ELSE IF should_include_case(
                     build_review_case(from - 1, strip(rows[from].procedure),
                                       rows[from].ml_prediction, rows[from].ml_confidence),
                     focus, low_confidence)
              THEN << build_review_case(from - 1, strip(rows[from].procedure),
                                        rows[from].ml_prediction,
                                        rows[from].ml_confidence) >>
                   \o load_cases_from(rows, from + 1, focus, low_confidence)
              ELSE load_cases_from(rows, from + 1, focus, low_confidence)

load_review_cases(rows, config) ==
    stable_sort(load_cases_from(rows, 1, config.focus, config.low_confidence))

load_review_progress(progress_file) ==
    IF ~progress_file.exists THEN << >> ELSE progress_file.content

save_review_progress(paths, reviewed_indices) ==
    FileOf([ data_path |-> paths.data_path,
             model_path |-> paths.model_path,
             reviewed_indices |-> sorted(reviewed_indices) ])

paths_match(progress, paths) ==
    /\ dict_get(progress, "data_path", NoValue) = paths.data_path
    /\ dict_get(progress, "model_path", NoValue) = paths.model_path

paths_match_either(progress, paths) ==
    \/ dict_get(progress, "data_path", NoValue) = paths.data_path
    \/ dict_get(progress, "model_path", NoValue) = paths.model_path

indices_of_progress_any(progress, paths) ==
    IF DOMAIN progress = {} THEN {}
    ELSE IF ~paths_match_either(progress, paths) THEN {}
    ELSE Range(dict_get(progress, "reviewed_indices", << >>))

indices_of_progress(progress, paths) ==
    IF DOMAIN progress = {} THEN {}
    ELSE IF ~paths_match(progress, paths) THEN {}
    ELSE Range(dict_get(progress, "reviewed_indices", << >>))

load_reviewed_indices(progress_file, paths, resume) ==
    IF ~resume THEN {}
    ELSE indices_of_progress(load_review_progress(progress_file), paths)

rows_of(indexed) == [ i \in DOMAIN indexed |-> indexed[i].row ]

\* A CSV file as pandas reads it: the header's columns and the rows. A cell
\* with no value reads as NaN, which str() turns into "nan".
Table(columns, rows) == [columns |-> columns, rows |-> rows]

NaN == <<"NaN">>

str(value) == IF value = NaN THEN <<"n","a","n">> ELSE value

fillna(value, default) == IF value = NaN THEN default ELSE value

\* pd.DataFrame(): no columns, no rows.
EmptyDataFrame == Table({}, << >>)

\* The cell of a row in a column; a row without the column has no value there.
cell(row, column) == IF column \in DOMAIN row THEN row[column] ELSE NaN

\* Rows brought to one set of columns, as pd.concat does for frames whose
\* columns differ.
reindexed(rows, columns) ==
    [ i \in DOMAIN rows |-> [ column \in columns |-> cell(rows[i], column) ] ]

\* pd.concat([a, b], ignore_index=True)
concat(a, b) ==
    Table(a.columns \cup b.columns, reindexed(a.rows \o b.rows, a.columns \cup b.columns))

\* DataFrame.drop_duplicates(subset=[subset], keep="last")
drop_duplicates_keep_last(rows, subset) ==
    SelectSeq([ i \in DOMAIN rows |-> [at |-> i, row |-> rows[i]] ],
              LAMBDA item : \A j \in (item.at + 1)..Len(rows) :
                                cell(rows[j], subset) # cell(item.row, subset))

LabelColumns ==
    { "procedure", "human_category", "rule_category", "ml_category", "confidence",
      "notes", "source_case_id" }

\* pd.read_csv of a labels file: an empty notes cell comes back as NaN.
read_label_row(row) ==
    IF "notes" \in DOMAIN row /\ row.notes = << >> THEN [row EXCEPT !.notes = NaN] ELSE row

read_review_labels(output_file) ==
    IF output_file.exists
    THEN Table(output_file.content.columns,
               [ i \in DOMAIN output_file.content.rows |->
                   read_label_row(output_file.content.rows[i]) ])
    ELSE EmptyDataFrame

\* pd.DataFrame(session_labels)
labels_frame(session_labels) ==
    IF session_labels = << >> THEN EmptyDataFrame ELSE Table(LabelColumns, session_labels)

merged_labels(merged) ==
    IF merged.rows # << >> /\ "procedure" \in merged.columns
    THEN Table(merged.columns, rows_of(drop_duplicates_keep_last(merged.rows, "procedure")))
    ELSE merged

save_review_labels_no_dedup(output_file, session_labels) ==
    FileOf(concat(read_review_labels(output_file), labels_frame(session_labels)))

save_review_labels(output_file, session_labels) ==
    FileOf(merged_labels(concat(read_review_labels(output_file),
                                labels_frame(session_labels))))

recommended_category(case) ==
    IF case.disagreement THEN case.rule_prediction ELSE case.ml_prediction

label_record(case, selected) ==
    [ procedure |-> case.procedure,
      human_category |-> normalize_category_label(selected),
      rule_category |-> case.rule_prediction,
      ml_category |-> case.ml_prediction,
      confidence |-> REVIEW_LABEL_CONFIDENCE,
      notes |-> << >>,
      source_case_id |-> case.index ]

\* str.isdigit() and int() on the keys a reviewer can type.
DigitChoices == {"0", "1", "8", "11", "12"}

isdigit(choice) == choice \in DigitChoices

int(choice) ==
    CASE choice = "0" -> 0
      [] choice = "1" -> 1
      [] choice = "8" -> 8
      [] choice = "11" -> 11
      [] choice = "12" -> 12

resolve_selected_category(choice, case, recommended) ==
    IF choice \in {"a", " "} THEN recommended
    ELSE IF choice \in {"m", "j"} THEN case.ml_prediction
    ELSE IF choice \in {"r", "f"} THEN case.rule_prediction
    ELSE IF choice = "o"
         THEN IF <<"O","t","h","e","r"," ","(","p","r","o","c","e","d","u","r","e"," ","c","a","t",")">> \in Range(LABEL_CATEGORIES)
              THEN <<"O","t","h","e","r"," ","(","p","r","o","c","e","d","u","r","e"," ","c","a","t",")">>
              ELSE LABEL_CATEGORIES[Len(LABEL_CATEGORIES)]
    ELSE IF isdigit(choice) /\ 1 <= int(choice) /\ int(choice) <= Len(LABEL_CATEGORIES)
         THEN LABEL_CATEGORIES[int(choice)]
    ELSE None

\* The part of a session that decisions change: the runtime's reviewed set,
\* the metrics, and the progress and labels files.
ReviewState(reviewed_indices, session_metrics, progress_file, output_file, applied) ==
    [ reviewed_indices |-> reviewed_indices,
      metrics |-> session_metrics,
      progress |-> progress_file,
      output |-> output_file,
      applied |-> applied ]

mark_reviewed(case, paths, state) ==
    ReviewState(state.reviewed_indices \cup {case.index},
                [state.metrics EXCEPT !.reviewed_this_session = @ + 1],
                save_review_progress(paths, state.reviewed_indices \cup {case.index}),
                state.output, TRUE)

autosave_needed_late(staged_labels) ==
    staged_labels # << >> /\ Len(staged_labels) % (AUTOSAVE_PERIOD + 1) = 0

autosave_needed(staged_labels) ==
    staged_labels # << >> /\ Len(staged_labels) % AUTOSAVE_PERIOD = 0

autosave_if_needed(state) ==
    IF ~autosave_needed(state.metrics.staged_labels) THEN state
    ELSE [state EXCEPT !.output = save_review_labels(state.output,
                                                     state.metrics.staged_labels),
                       !.metrics.staged_labels = << >>]

stage_label(case, selected, accepted, state) ==
    [state EXCEPT !.metrics.accepted_recommended = IF accepted THEN @ + 1 ELSE @,
                  !.metrics.staged_labels = Append(@, label_record(case, selected))]

apply_selected(choice, case, paths, state, selected) ==
    IF selected = None THEN [state EXCEPT !.applied = FALSE]
    ELSE autosave_if_needed(
             mark_reviewed(case, paths,
                           stage_label(case, selected, choice \in {"a", " "}, state)))

apply_review_choice(choice, case, paths, state) ==
    IF choice = "s"
    THEN mark_reviewed(case, paths, [state EXCEPT !.metrics.skipped = @ + 1])
    ELSE apply_selected(choice, case, paths, state,
                        resolve_selected_category(choice, case,
                                                  recommended_category(case)))

\* queue[:max_cases] when max_cases is given (a one-element tuple), else queue.
truncated(items, max_cases) ==
    IF max_cases = << >> THEN items
    ELSE IF max_cases[1] >= Len(items) THEN items
    ELSE SubSeq(items, 1, max_cases[1])

\* queue = [case for case in cases if case.index not in reviewed_indices][:max_cases]
queue_of(loaded, reviewed_indices, max_cases) ==
    IF loaded = << >> THEN << >>
    ELSE truncated(SelectSeq(loaded, LAMBDA case : case.index \notin reviewed_indices),
                   max_cases)

build_review_queue(rows, config, reviewed_indices) ==
    queue_of(load_review_cases(rows, config), reviewed_indices, config.max_cases)

\* The end of _review_command without the write of the staged labels.
flush_staged_never(output_file, staged_labels) == output_file

\* The end of _review_command: staged labels left over are written out.
flush_staged(output_file, staged_labels) ==
    IF staged_labels # << >> THEN save_review_labels(output_file, staged_labels)
    ELSE output_file

ReviewSessionMetrics ==
    [ reviewed_this_session |-> 0,
      accepted_recommended |-> 0,
      skipped |-> 0,
      staged_labels |-> << >>,
      quit_requested |-> FALSE ]

(***************************************************************************)
(* Retraining with review overrides (workbench.py retrain)                 *)
(***************************************************************************)
OVERRIDE_CORRECTION_MULTIPLIER == 3

\* The fill value of a missing label ("Other (procedure cat)").
OTHER_LABEL == <<"O","t","h","e","r"," ","(","p","r","o","c","e","d","u","r","e"," ","c","a","t",")">>

Raised(exception) == [raised |-> exception]

\* " ".join(text.split()) on a text with no whitespace at either end: every
\* run of whitespace becomes one space.
RECURSIVE join_split(_)
join_split(stripped) ==
    IF stripped = << >> THEN << >>
    ELSE IF Head(stripped) \notin Whitespace
         THEN << Head(stripped) >> \o join_split(Tail(stripped))
         ELSE << " " >> \o join_split(strip(Tail(stripped)))

\* None gives ""; a NaN cell is not None and gives "NAN".
normalize_procedure_key(value) ==
    IF value = None THEN << >> ELSE upper(join_split(strip(str(value))))

normalized_label(value) == normalize_category_label(str(fillna(value, OTHER_LABEL)))

\* The rows of cleaned after the procedure_key filter, as (key, category).
override_entry(row) ==
    [ procedure_key |-> normalize_procedure_key(row.procedure),
      human_category |-> normalized_label(row.human_category) ]

\* The dict with the first record of a key kept.
override_dict_first(entries) ==
    [ key \in {entries[i].procedure_key : i \in DOMAIN entries} \ {<< >>} |->
        entries[CHOOSE i \in DOMAIN entries :
                    /\ entries[i].procedure_key = key
                    /\ \A j \in DOMAIN entries :
                          entries[j].procedure_key = key => i <= j].human_category ]

\* dict(zip(keys, categories)) after drop_duplicates(keep="last").
override_dict(entries) ==
    [ key \in {entries[i].procedure_key : i \in DOMAIN entries} \ {<< >>} |->
        entries[CHOOSE i \in DOMAIN entries :
                    /\ entries[i].procedure_key = key
                    /\ \A j \in DOMAIN entries :
                          entries[j].procedure_key = key => j <= i].human_category ]

load_override_map(review_df) ==
    IF {"procedure", "human_category"} \ review_df.columns # {}
    THEN Raised("ValueError")
    ELSE [ map |-> override_dict([ i \in DOMAIN review_df.rows |->
                                     override_entry(review_df.rows[i]) ]) ]

upsert_label_cell(row, label_column, present) ==
    normalized_label(IF present THEN row[label_column] ELSE OTHER_LABEL)

upsert_label_column(df, label_column) ==
    Table(df.columns \cup {label_column},
          [ i \in DOMAIN df.rows |->
              [ field \in DOMAIN df.rows[i] \cup {label_column} |->
                  IF field = label_column
                  THEN upsert_label_cell(df.rows[i], label_column,
                                         label_column \in df.columns)
                  ELSE df.rows[i][field] ] ])

has_procedure_column(df) ==
    "AIMS_Actual_Procedure_Text" \in df.columns \/ "procedure" \in df.columns

resolve_procedure_column(df) ==
    IF "AIMS_Actual_Procedure_Text" \in df.columns THEN "AIMS_Actual_Procedure_Text"
    ELSE "procedure"

with_field(row, name, value) ==
    [ field \in DOMAIN row \cup {name} |-> IF field = name THEN value ELSE row[field] ]

without_fields(row, names) == [ field \in DOMAIN row \ names |-> row[field] ]

add_procedure_key(df, procedure_col) ==
    Table(df.columns \cup {"_procedure_key"},
          [ i \in DOMAIN df.rows |->
              with_field(df.rows[i], "_procedure_key",
                         normalize_procedure_key(df.rows[i][procedure_col])) ])

keyed_frame(df, label_column) ==
    add_procedure_key(upsert_label_column(df, label_column),
                      resolve_procedure_column(df))

\* The override applied without replacing the label: the row is only flagged.
overridden_row_flag_only(row, override_map, label_column) ==
    with_field(row, "_is_override_correction",
               row._procedure_key \in DOMAIN override_map
                   /\ row[label_column] # override_map[row._procedure_key])

\* A row after the override of its key is applied: the label is replaced and
\* the row is flagged when the label changed.
overridden_row(row, override_map, label_column) ==
    IF row._procedure_key \in DOMAIN override_map
    THEN with_field(with_field(row, "_is_override_correction",
                               row[label_column] # override_map[row._procedure_key]),
                    label_column, override_map[row._procedure_key])
    ELSE with_field(row, "_is_override_correction", FALSE)

overridden_rows(rows, override_map, label_column) ==
    [ i \in DOMAIN rows |-> overridden_row(rows[i], override_map, label_column) ]

in_override_map(rows, override_map) ==
    SelectSeq(rows, LAMBDA row : row._procedure_key \in DOMAIN override_map)

not_in_override_map(rows, override_map) ==
    SelectSeq(rows, LAMBDA row : row._procedure_key \notin DOMAIN override_map)

corrected_of(rows) == SelectSeq(rows, LAMBDA row : row._is_override_correction)

RECURSIVE repeated(_, _)
repeated(rows, times) ==
    IF times <= 0 THEN << >> ELSE rows \o repeated(rows, times - 1)

\* No copies are added for corrections.
weighted_rows_unweighted(rows) == rows

weighted_rows(rows) ==
    IF Len(corrected_of(rows)) > 0 /\ OVERRIDE_CORRECTION_MULTIPLIER > 1
    THEN rows \o repeated(corrected_of(rows), OVERRIDE_CORRECTION_MULTIPLIER - 1)
    ELSE rows

rows_added_by_weighting(rows) ==
    IF Len(corrected_of(rows)) > 0 /\ OVERRIDE_CORRECTION_MULTIPLIER > 1
    THEN Len(corrected_of(rows)) * (OVERRIDE_CORRECTION_MULTIPLIER - 1)
    ELSE 0

dropped(rows, names) == [ i \in DOMAIN rows |-> without_fields(rows[i], names) ]

\* retrain_df before weighting: seen rows and promoted unseen rows with the
\* overrides applied, one row per key (the last).
deduplicated_retrain(seen_rows, unseen_rows, override_map, label_column) ==
    rows_of(drop_duplicates_keep_last(
                overridden_rows(seen_rows, override_map, label_column)
                    \o overridden_rows(in_override_map(unseen_rows, override_map),
                                       override_map, label_column),
                "_procedure_key"))

merge_result(retrain, seen_rows, unseen_rows, override_map) ==
    [ retrain_df |-> dropped(weighted_rows(retrain),
                             {"_procedure_key", "_is_override_correction"}),
      remaining_eval_df |-> dropped(not_in_override_map(unseen_rows, override_map),
                                    {"_procedure_key"}),
      seen_overrides_applied |-> Len(in_override_map(seen_rows, override_map)),
      unseen_promoted |-> Len(in_override_map(unseen_rows, override_map)),
      corrected_rows |-> Len(corrected_of(retrain)),
      rows_added |-> rows_added_by_weighting(retrain) ]

merge_override_frames(seen_rows, unseen_rows, override_map, label_column) ==
    merge_result(deduplicated_retrain(seen_rows, unseen_rows, override_map, label_column),
                 seen_rows, unseen_rows, override_map)

validate_retrain_paths_inputs_only(fs, force) ==
    IF ~fs.seen.exists \/ ~fs.unseen.exists \/ ~fs.review_labels.exists
    THEN Raised("RuntimeError")
    ELSE [valid |-> TRUE]

validate_retrain_paths(fs, force) ==
    IF ~fs.seen.exists \/ ~fs.unseen.exists \/ ~fs.review_labels.exists
    THEN Raised("RuntimeError")
    ELSE IF force THEN [valid |-> TRUE]
    ELSE IF fs.retrain_output.exists \/ fs.eval_output.exists
         THEN Raised("RuntimeError")
    ELSE [valid |-> TRUE]

RetrainMergeSummary(override_map, merged) ==
    [ override_count |-> Cardinality(DOMAIN override_map),
      seen_overrides_applied |-> merged.seen_overrides_applied,
      unseen_promoted |-> merged.unseen_promoted,
      corrected_rows_weighted |-> merged.corrected_rows,
      rows_added_by_weighting |-> merged.rows_added,
      weighting_multiplier |-> OVERRIDE_CORRECTION_MULTIPLIER,
      retrain_rows |-> Len(merged.retrain_df),
      remaining_eval_rows |-> Len(merged.remaining_eval_df) ]

write_outputs_over_inputs(fs, retrain_df, remaining_eval_df) ==
    [fs EXCEPT !.seen = FileOf(retrain_df), !.unseen = FileOf(remaining_eval_df)]

\* retrain_df.to_csv(retrain_output_path); remaining_eval_df.to_csv(eval_output_path)
write_outputs(fs, retrain_df, remaining_eval_df) ==
    [fs EXCEPT !.retrain_output = FileOf(retrain_df),
               !.eval_output = FileOf(remaining_eval_df)]

prepared(fs, label_column, override_map, merged) ==
    [ files |-> write_outputs(fs,
                    Table((fs.seen.content.columns \cup fs.unseen.content.columns)
                              \cup {label_column},
                          reindexed(merged.retrain_df,
                                    (fs.seen.content.columns \cup fs.unseen.content.columns)
                                        \cup {label_column})),
                    Table(fs.unseen.content.columns \cup {label_column},
                          merged.remaining_eval_df)),
      summary |-> RetrainMergeSummary(override_map, merged) ]

prepare_with_map(fs, label_column, loaded) ==
    IF "raised" \in DOMAIN loaded THEN loaded
    ELSE IF DOMAIN loaded.map = {} THEN Raised("RuntimeError")
    ELSE IF ~has_procedure_column(fs.seen.content) \/ ~has_procedure_column(fs.unseen.content)
         THEN Raised("ValueError")
    ELSE prepared(fs, label_column, loaded.map,
                  merge_override_frames(keyed_frame(fs.seen.content, label_column).rows,
                                        keyed_frame(fs.unseen.content, label_column).rows,
                                        loaded.map, label_column))

prepare_override_retrain_datasets(fs, force, label_column) ==
    IF "raised" \in DOMAIN validate_retrain_paths(fs, force)
    THEN validate_retrain_paths(fs, force)
    ELSE prepare_with_map(fs, label_column, load_override_map(fs.review_labels.content))

(***************************************************************************)
(* Batch processing (batch_process.py, CaseProcessor.process_dataframe)    *)
(***************************************************************************)
\* os.cpu_count() or 1, the count given as a tuple that is empty for None.
cpu_count_or_1(cpu_count) ==
    IF cpu_count = << >> \/ cpu_count[1] = 0 THEN 1 ELSE cpu_count[1]

row_workers_for_cpu_count(workers, cpu_count) == cpu_count_or_1(cpu_count)

\* process_resident: the row workers handed to process_dataframe.
row_workers_for(workers, cpu_count) ==
    IF workers # 0 /\ workers > 1 THEN 1 ELSE cpu_count_or_1(cpu_count)

\* The case _process_row_safe returns for a row whose processing raised.
failed_case(message) ==
    [ procedure |-> None,
      services |-> << >>,
      parsing_warnings |-> << <<"F","a","i","l","e","d"," ","t","o"," ","p","r","o","c","e","s","s"," ","r","o","w",":"," ">> \o message >>,
      confidence_score |-> 0 ]

\* A row of the model either carries the message of the exception its
\* processing raises, or is processed by process_row.
process_row_safe(self, idx, row) ==
    IF "raises" \in DOMAIN row THEN failed_case(row.raises)
    ELSE process_row(self, row)

results_as_completed(results, finished) == [ k \in DOMAIN finished |-> results[finished[k]] ]

\* [f.result() for f in futures]: the results in submission order.
results_in_order(results, finished) == [ i \in DOMAIN results |-> results[i] ]

Queued == [state |-> "queued"]

Running == [state |-> "running"]

\* The futures of a pool that are queued, and those that are running.
QueuedIn(futures) == {i \in DOMAIN futures : futures[i] = Queued}

RunningIn(futures) == {i \in DOMAIN futures : futures[i] = Running}

\* A pool's workers take the queued futures in submission order.
NextQueued(futures, i) == i \in QueuedIn(futures) /\ \A j \in QueuedIn(futures) : i <= j

(***************************************************************************)
(* The review session (workbench.py review)                               *)
(***************************************************************************)
\* Rows of the long review data set; raising it lengthens the longest queue.
MaxReviewRows == 11

\* Procedure texts no two of which are equal.
ProcedureNames ==
    << <<"E","G","D">>, <<"T","U","R","P">>, <<"O","R","I","F">>, <<"E","R","C","P">>, <<"T","K","A">>, <<"T","H","A">>, <<"A","C","D","F">>,
       <<"P","E","G">>, <<"T","A","H">>, <<"B","K","A">>, <<"A","K","A">>, <<"L","A","P">>, <<"T","E","E">> >>

\* A data set long enough for an autosave. The last row repeats the text of
\* the first; the pipeline disagrees with the rules on the second row only.
LongRows ==
    [ i \in 1..MaxReviewRows |->
        [ procedure |-> IF i = MaxReviewRows THEN ProcedureNames[1] ELSE ProcedureNames[i],
          ml_prediction |-> IF i = 2 THEN <<"C","e","s","a","r","e","a","n"," ","d","e","l">> ELSE <<"O","t","h","e","r"," ","(","p","r","o","c","e","d","u","r","e"," ","c","a","t",")">>,
          ml_confidence |-> IF i = 2 THEN 60 ELSE 90 ] ]

\* A short data set: a blank row, padded text, a qualified member name as the
\* predicted label, a repeated text, and confidences below, at and above 0.8.
ShortRows ==
    << [procedure |-> <<"E","G","D">>, ml_prediction |-> <<"O","t","h","e","r"," ","(","p","r","o","c","e","d","u","r","e"," ","c","a","t",")">>, ml_confidence |-> 80],
       [procedure |-> << " ", " " >>, ml_prediction |-> <<"O","t","h","e","r"," ","(","p","r","o","c","e","d","u","r","e"," ","c","a","t",")">>, ml_confidence |-> 95],
       [procedure |-> <<" ","T","U","R","P"," ">>, ml_prediction |-> <<"P","r","o","c","e","d","u","r","e","C","a","t","e","g","o","r","y",".","C","E","S","A","R","E","A","N">>, ml_confidence |-> 85],
       [procedure |-> <<"E","G","D">>, ml_prediction |-> <<"O","t","h","e","r"," ","(","p","r","o","c","e","d","u","r","e"," ","c","a","t",")">>, ml_confidence |-> 40] >>

ReviewPaths == [data_path |-> DATA_PATH, model_path |-> MODEL_PATH]

\* What a progress file may hold: an empty object, progress of this data and
\* model, progress of another data file or another model, or no index list.
ProgressPayloads ==
    { << >>,
      [data_path |-> DATA_PATH, model_path |-> MODEL_PATH, reviewed_indices |-> << 0, 2 >>],
      [data_path |-> "other.csv", model_path |-> MODEL_PATH, reviewed_indices |-> << 0, 2 >>],
      [data_path |-> DATA_PATH, model_path |-> "other.pkl", reviewed_indices |-> << 0, 2 >>],
      [data_path |-> "other.csv", model_path |-> "other.pkl", reviewed_indices |-> << 3 >>],
      [data_path |-> DATA_PATH, model_path |-> MODEL_PATH] }

\* A labels file left by an earlier session.
EarlierLabels ==
    << [ procedure |-> <<"E","G","D">>, human_category |-> <<"C","e","s","a","r","e","a","n"," ","d","e","l">>,
         rule_category |-> <<"O","t","h","e","r"," ","(","p","r","o","c","e","d","u","r","e"," ","c","a","t",")">>,
         ml_category |-> <<"O","t","h","e","r"," ","(","p","r","o","c","e","d","u","r","e"," ","c","a","t",")">>,
         confidence |-> REVIEW_LABEL_CONFIDENCE, notes |-> << >>, source_case_id |-> 0 ] >>

NoFiles ==
    [ model |-> Absent, data |-> Absent, progress |-> Absent, review_labels |-> Absent,
      seen |-> Absent, unseen |-> Absent, retrain_output |-> Absent,
      eval_output |-> Absent ]

\* The files a review can start from.
ReviewFileStates ==
    { [NoFiles EXCEPT !.model = FileOf("pipeline"), !.data = FileOf(LongRows)],
      [NoFiles EXCEPT !.model = FileOf("pipeline")],
      [NoFiles EXCEPT !.data = FileOf(ShortRows)] }
        \cup { [NoFiles EXCEPT !.model = FileOf("pipeline"), !.data = FileOf(ShortRows),
                               !.progress = progress, !.review_labels = labels] :
                 progress \in {Absent} \cup {FileOf(p) : p \in ProgressPayloads},
                 labels \in {Absent, FileOf(Table(LabelColumns, EarlierLabels))} }

FocusChoices == {"priority", "disagreement", "low_confidence", "all"}

\* --max-cases: absent (no limit) or a count.
MaxCasesChoices == {<< >>, << 1 >>}

LOW_CONFIDENCE == 80

ReviewConfigs ==
    { [focus |-> f, low_confidence |-> LOW_CONFIDENCE, max_cases |-> m, resume |-> r] :
        f \in FocusChoices, m \in MaxCasesChoices, r \in BOOLEAN }

\* The long data set is reviewed whole, without --resume.
LongReviewConfigs ==
    { c \in ReviewConfigs : c.focus = "all" /\ c.max_cases = << >> /\ ~c.resume }

ReviewConfigsFor(data_file) ==
    IF data_file.exists /\ Len(data_file.content) > Len(ShortRows)
    THEN LongReviewConfigs ELSE ReviewConfigs

\* Keys that reach _apply_review_choice, and one key ("x") that is none.
ReviewChoices == {"a", " ", "m", "j", "r", "f", "o", "s", "x", "0", "1", "8", "11", "12"}

\* On the long queue the reviewer accepts, chooses Other, skips or mistypes.
LongReviewChoices == {" ", "o", "s", "x"}

ReviewChoicesFor(items) ==
    IF Len(items) > Len(ShortRows) THEN LongReviewChoices ELSE ReviewChoices

NoRuntime == [built |-> FALSE]

ToolsIdle ==
    /\ files = NoFiles
    /\ runtime = NoRuntime
    /\ queue = << >>
    /\ current_index = 0
    /\ metrics = ReviewSessionMetrics
    /\ runs = << >>

BatchIdle ==
    /\ process_config = [workers |-> 0, cpu_count |-> << >>]
    /\ residents = << >>

ReviewInit ==
    /\ pc = "review"
    /\ classifier = NoClassifier
    /\ call = [op |-> "none"]
    /\ cases = << >>
    /\ files \in ReviewFileStates
    /\ runtime = NoRuntime
    /\ queue = << >>
    /\ current_index = 0
    /\ metrics = ReviewSessionMetrics
    /\ runs = << >>
    /\ BatchIdle

ReviewRuntime(config, reviewed_indices) ==
    [ built |-> TRUE, paths |-> ReviewPaths, config |-> config,
      reviewed_indices |-> reviewed_indices ]

validate_review_paths(fs) == fs.model.exists /\ fs.data.exists

\* _review_command up to the first prompt: _build_review_runtime, then
\* _build_review_queue; it returns 1 on invalid paths and 0 on an empty queue.
StartReview ==
    /\ pc = "review"
    /\ \E config \in ReviewConfigsFor(files.data) :
          IF ~validate_review_paths(files)
          THEN /\ pc' = "returned_1"
               /\ UNCHANGED <<runtime, queue>>
          ELSE /\ runtime' = ReviewRuntime(config,
                                 load_reviewed_indices(files.progress, ReviewPaths,
                                                       config.resume))
               /\ queue' = build_review_queue(files.data.content, config,
                                              runtime'.reviewed_indices)
               /\ pc' = IF queue' = << >> THEN "returned_0" ELSE "reviewing"
    /\ UNCHANGED <<classifier, call, cases, files, current_index, metrics, runs>>
    /\ UNCHANGED batch_vars

\* What a decision leaves behind. The interface exits after the last case of
\* the queue, and _review_command then writes the staged labels.
ReviewStep(state) ==
    /\ runtime' = [runtime EXCEPT !.reviewed_indices = state.reviewed_indices]
    /\ metrics' = state.metrics
    /\ current_index' = IF state.applied THEN current_index + 1 ELSE current_index
    /\ IF state.applied /\ current_index + 1 >= Len(queue)
       THEN /\ pc' = "returned_0"
            /\ files' = [files EXCEPT !.progress = state.progress,
                                      !.review_labels =
                                          flush_staged(state.output,
                                                       state.metrics.staged_labels)]
       ELSE /\ pc' = pc
            /\ files' = [files EXCEPT !.progress = state.progress,
                                      !.review_labels = state.output]

\* ReviewApp._apply_choice / the body of the loop of _run_review_classic for
\* a key other than "q".
ApplyChoice ==
    /\ pc = "reviewing"
    /\ \E choice \in ReviewChoicesFor(queue) :
          ReviewStep(apply_review_choice(choice, queue[current_index + 1],
                                         runtime.paths,
                                         ReviewState(runtime.reviewed_indices, metrics,
                                                     files.progress,
                                                     files.review_labels, FALSE)))
    /\ UNCHANGED <<classifier, call, cases, queue, runs>>
    /\ UNCHANGED batch_vars

\* The key "q": the interface exits and _review_command writes the staged
\* labels.
QuitReview ==
    /\ pc = "reviewing"
    /\ metrics' = [metrics EXCEPT !.quit_requested = TRUE]
    /\ files' = [files EXCEPT !.review_labels =
                                  flush_staged(files.review_labels, metrics.staged_labels)]
    /\ pc' = "returned_0"
    /\ UNCHANGED <<classifier, call, cases, runtime, queue, current_index, runs>>
    /\ UNCHANGED batch_vars

ReviewNext == StartReview \/ ApplyChoice \/ QuitReview

ReviewSpec == ReviewInit /\ [][ReviewNext]_vars

(***************************************************************************)
(* The retrain command                                                     *)
(***************************************************************************)
\* How many times the retrain command is run on the same files.
MaxRetrainRuns == 2

LABEL_COLUMN == "rule_category"

\* Seen tables: padded and lower-case texts, two rows with one key, a table
\* without a label column and with a missing procedure cell, a table with the
\* AIMS column, and a table without a procedure column.
SeenTables ==
    { Table({"procedure", "rule_category"},
            << [procedure |-> <<" ","c","a","b","g"," "," ","x","2"," ">>, rule_category |-> <<"O","t","h","e","r"," ","(","p","r","o","c","e","d","u","r","e"," ","c","a","t",")">>],
               [procedure |-> <<"E","G","D">>, rule_category |-> <<"O","t","h","e","r"," ","(","p","r","o","c","e","d","u","r","e"," ","c","a","t",")">>],
               [procedure |-> <<"e","g","d">>, rule_category |-> <<"C","e","s","a","r","e","a","n"," ","d","e","l">>] >>),
      Table({"procedure"},
            << [procedure |-> <<"T","U","R","P">>], [procedure |-> NaN] >>),
      Table({"AIMS_Actual_Procedure_Text", "rule_category"},
            << [AIMS_Actual_Procedure_Text |-> <<"O","R","I","F">>, rule_category |-> NaN] >>),
      Table({"rule_category"}, << [rule_category |-> <<"C","e","s","a","r","e","a","n"," ","d","e","l">>] >>) }

UnseenTables ==
    { Table({"procedure", "rule_category"},
            << [procedure |-> <<"E","G","D">>, rule_category |-> <<"O","t","h","e","r"," ","(","p","r","o","c","e","d","u","r","e"," ","c","a","t",")">>],
               [procedure |-> <<"C","A","B","G"," ","x","2">>, rule_category |-> <<"P","r","o","c","e","d","u","r","e","C","a","t","e","g","o","r","y",".","C","A","R","D","I","A","C","_","W","I","T","H","_","C","P","B">>],
               [procedure |-> <<"T","U","R","P">>, rule_category |-> NaN],
               [procedure |-> <<"O","R","I","F">>, rule_category |-> <<"O","t","h","e","r"," ","(","p","r","o","c","e","d","u","r","e"," ","c","a","t",")">>] >>),
      Table({"procedure", "rule_category"}, << >>),
      Table({"rule_category"}, << [rule_category |-> <<"C","e","s","a","r","e","a","n"," ","d","e","l">>] >>) }

\* Review-labels tables: overrides with a repeated key and a qualified member
\* name as category, overrides with missing
\* cells, a table without each required column, a header without rows, and
\* rows whose procedure is blank.
ReviewLabelTables ==
    { Table({"procedure", "human_category"},
            << [procedure |-> <<"e","g","d">>, human_category |-> <<"C","e","s","a","r","e","a","n"," ","d","e","l">>],
               [procedure |-> <<"C","A","B","G"," "," ","X","2">>,
                human_category |-> <<"P","r","o","c","e","d","u","r","e","C","a","t","e","g","o","r","y",".","C","A","R","D","I","A","C","_","W","I","T","H","_","C","P","B">>],
               [procedure |-> <<"E","G","D">>, human_category |-> <<"V","a","g","i","n","a","l"," ","d","e","l">>] >>),
      Table({"procedure", "human_category"},
            << [procedure |-> <<"T","U","R","P">>, human_category |-> NaN],
               [procedure |-> NaN, human_category |-> <<"C","e","s","a","r","e","a","n"," ","d","e","l">>] >>),
      Table({"procedure"}, << [procedure |-> <<"E","G","D">>] >>),
      Table({"human_category"}, << [human_category |-> <<"C","e","s","a","r","e","a","n"," ","d","e","l">>] >>),
      Table({"procedure", "human_category"}, << >>),
      Table({"procedure", "human_category"},
            << [procedure |-> << " ", " " >>, human_category |-> <<"C","e","s","a","r","e","a","n"," ","d","e","l">>] >>) }

\* An output file left by an earlier run.
EarlierOutput ==
    FileOf(Table({"procedure", "rule_category"},
                 << [procedure |-> <<"P","E","G">>, rule_category |-> <<"O","t","h","e","r"," ","(","p","r","o","c","e","d","u","r","e"," ","c","a","t",")">>] >>))

RetrainFileStates ==
    { [NoFiles EXCEPT !.seen = seen, !.unseen = unseen, !.review_labels = labels,
                      !.retrain_output = outputs[1], !.eval_output = outputs[2]] :
        seen \in {Absent} \cup {FileOf(t) : t \in SeenTables},
        unseen \in {Absent} \cup {FileOf(t) : t \in UnseenTables},
        labels \in {Absent} \cup {FileOf(t) : t \in ReviewLabelTables},
        outputs \in { <<Absent, Absent>>, <<EarlierOutput, Absent>>,
                      <<Absent, EarlierOutput>>, <<EarlierOutput, EarlierOutput>> } }

RetrainInit ==
    /\ pc = "retrain"
    /\ classifier = NoClassifier
    /\ call = [op |-> "none"]
    /\ cases = << >>
    /\ files \in RetrainFileStates
    /\ runtime = NoRuntime
    /\ queue = << >>
    /\ current_index = 0
    /\ metrics = ReviewSessionMetrics
    /\ runs = << >>
    /\ BatchIdle

\* _retrain_command once _prepare_override_retrain_datasets has returned or
\* raised: a failure returns 1; otherwise the training stage is started on the
\* files written (the exit code is then that of the scripts run).
RetrainOutcome(force, outcome) ==
    IF "raised" \in DOMAIN outcome
    THEN /\ runs' = Append(runs, [ force |-> force, raised |-> outcome.raised,
                                   returned |-> 1, stage_started |-> FALSE ])
         /\ UNCHANGED files
    ELSE /\ runs' = Append(runs, [ force |-> force, raised |-> "none",
                                   summary |-> outcome.summary,
                                   stage_started |-> TRUE ])
         /\ files' = outcome.files

RetrainCommand ==
    /\ pc = "retrain"
    /\ Len(runs) < MaxRetrainRuns
    /\ \E force \in BOOLEAN :
          RetrainOutcome(force, prepare_override_retrain_datasets(files, force, LABEL_COLUMN))
    /\ UNCHANGED <<pc, classifier, call, cases, runtime, queue, current_index, metrics>>
    /\ UNCHANGED batch_vars

\* _load_override_map(review_labels_path) on the review-labels file.
LoadOverrideMap ==
    /\ pc = "retrain"
    /\ call.op = "none"
    /\ call' = [ op |-> "load_override_map",
                 result |-> IF files.review_labels.exists
                            THEN load_override_map(files.review_labels.content)
                            ELSE Raised("FileNotFoundError") ]
    /\ UNCHANGED <<pc, classifier, cases>>
    /\ UNCHANGED tool_vars
    /\ UNCHANGED batch_vars

RetrainNext == RetrainCommand \/ LoadOverrideMap

RetrainSpec == RetrainInit /\ [][RetrainNext]_vars

(***************************************************************************)
(* Inputs                                                                  *)
(***************************************************************************)
\* Procedure values handed to the engine: None, the empty string and texts
\* in mixed case.
ProcedureInputs ==
    { None, << >>,
      <<"H","e","r","n","i","a"," ","r","e","p","a","i","r">>, <<"L","a","b","o","r"," ","E","p","i","d","u","r","a","l">>, <<"E","p","i","d","u","r","a","l"," ","f","o","r"," ","l","a","b","o","r">>,
      <<"C","e","s","a","r","e","a","n"," ","d","e","l","i","v","e","r","y">>, <<"O","F","F","-","P","U","M","P"," ","B","Y","P","A","S","S">>, <<"C","A","B","G"," ","b","y","p","a","s","s">>, <<"T","A","V","R">>,
      <<"T","h","o","r","a","c","o","t","o","m","y">>, <<"P","e","r","i","c","a","r","d","i","a","l"," ","w","i","n","d","o","w">>, <<"E","V","A","R"," ","s","t","e","n","t">>,
      <<"O","p","e","n"," ","c","r","a","n","i","o","t","o","m","y"," ","t","u","m","o","r">>, <<"T","h","o","r","a","c","i","c"," ","v","a","s","c"," ","n","e","u","r","o">>,
      <<"C","a","r","d","i","o","t","h","o","r","a","c","i","c"," ","v","a","s","c","u","l","a","r">>, <<"C","e","s","a","r","e","a","n",","," ","t","h","o","r","a","c","i","c"," ","e","p","i","d","u","r","a","l">> }

\* Service names as they occur in the Services column.
ServiceInputs ==
    { <<"C","A","R","D","I","A","C">>, <<"C","A","R","D","I","A","C"," ","V","A","S","C"," ","S","U","R","G","E","R","Y">>, <<"C","A","R","D","I","O","T","H","O","R","A","C","I","C">>, <<"T","h","o","r","a","c","i","c">>,
      <<"V","A","S","C","U","L","A","R">>, <<"N","E","U","R","O","S","U","R","G","E","R","Y">>, <<"O","B","/","G","Y","N">>, <<"O","B"," ","C","A","R","D","I","A","C">>, <<"G","E","N","E","R","A","L">>,
      <<"T","R","A","N","S","P","L","A","N","T">> }

\* All service lists of at most MaxServices entries.
ServiceLists == UNION {[1..n -> ServiceInputs] : n \in 0..MaxServices}

\* Arguments of classify: texts, and service lists (or None) over a few
\* services.
ClassifyProcedures ==
    { << >>, <<"H","e","r","n","i","a"," ","r","e","p","a","i","r">>, <<"L","a","b","o","r"," ","E","p","i","d","u","r","a","l">>, <<"O","F","F","-","P","U","M","P"," ","B","Y","P","A","S","S">>,
      <<"C","A","B","G"," ","b","y","p","a","s","s">> }

ClassifyServiceLists ==
    { s \in ServiceLists :
        \A i \in DOMAIN s : s[i] \in { <<"C","A","R","D","I","A","C">>, <<"O","B"," ","C","A","R","D","I","A","C">>, <<"G","E","N","E","R","A","L">> } }
        \cup {NoServices}

\* Upper-cased texts handed to categorize_cardiac.
CardiacTexts ==
    {upper(p) : p \in ProcedureInputs \ {None}}
        \cup { <<"C","A","B","G"," ","O","N"," ","P","U","M","P">>, <<"O","P","C","A","B">>, <<"P","E","R","C","U","T","A","N","E","O","U","S"," ","V","A","L","V","E"," ","O","N","-","P","U","M","P">> }

\* Labels a trained pipeline may return: taxonomy values, bare or wrapped in
\* whitespace, and strings that are no taxonomy value.
MLLabels ==
    { <<"O","t","h","e","r"," ","(","p","r","o","c","e","d","u","r","e"," ","c","a","t",")">>, <<"C","e","s","a","r","e","a","n"," ","d","e","l">>, <<" ","V","a","g","i","n","a","l"," ","d","e","l">> \o << "\n" >>,
      <<"U","n","k","n","o","w","n">>, <<"O","T","H","E","R">> }

MLConfidences == {50, 69, 70, 84, 85, 90}

MLThresholds == {50, 70, 90}

\* What may be at the default model path: nothing, an artifact without a
\* pipeline, or a pipeline that answers every text with one label and one
\* confidence.
Artifacts ==
    { [kind |-> "missing"], [kind |-> "no_pipeline"] }
        \cup { [kind |-> "pipeline", label |-> l, confidence |-> c] :
                 l \in MLLabels, c \in MLConfidences }

\* Raw Services cells: missing, one line, several lines with blanks.
RawServices ==
    { None, <<"C","A","R","D","I","A","C">>, <<" ","V","A","S","C","U","L","A","R"," ">> \o << "\n" >> \o <<"O","B","/","G","Y","N">> \o << "\n", " " >> }

RowInputs ==
    [ procedure : { None, <<"O","F","F","-","P","U","M","P"," ","B","Y","P","A","S","S">> }, services : RawServices ]

(***************************************************************************)
(* State machine                                                           *)
(*   pc         : "start" before anything is constructed, "ready" once a   *)
(*                CaseProcessor holds a classifier, "done" after a call,   *)
(*                "raised" when the constructor raised                     *)
(*   classifier : the processor's HybridClassifier                         *)
(*   call       : the last call, with its arguments and what it returned   *)
(*   cases      : the cases produced for the rows processed so far         *)
(***************************************************************************)
\* Labels given to the normaliser: a missing label, every canonical value
\* and every qualified member, bare and wrapped in whitespace, and strings
\* that are neither.
LabelInputs ==
    { None, << >>, <<"U","n","k","n","o","w","n">>, <<"P","r","o","c","e","d","u","r","e","C","a","t","e","g","o","r","y",".">>, <<"P","r","o","c","e","d","u","r","e","C","a","t","e","g","o","r","y",".","U","N","K","N","O","W","N">>,
      <<"P","r","o","c","e","d","u","r","e","C","a","t","e","g","o","r","y","."," ","O","T","H","E","R">>, <<"p","r","o","c","e","d","u","r","e","c","a","t","e","g","o","r","y",".","O","T","H","E","R">>,
      <<"C","a","t","e","g","o","r","y",".","O","T","H","E","R">>, <<"P","r","o","c","e","d","u","r","e","C","a","t","e","g","o","r","y",".","P","r","o","c","e","d","u","r","e","C","a","t","e","g","o","r","y",".","O","T","H","E","R">> }
        \cup { CategoryValue(m) : m \in Taxonomy }
        \cup { << " " >> \o CategoryValue(m) \o << "\n" >> : m \in Taxonomy }
        \cup { QUALIFIED_PREFIX \o MemberName(m) : m \in Taxonomy }
        \cup { << "\t" >> \o QUALIFIED_PREFIX \o MemberName(m) \o << " " >> :
                 m \in Taxonomy }

Init ==
    /\ pc = "start"
    /\ classifier = NoClassifier
    /\ call = [op |-> "none"]
    /\ cases = << >>
    /\ ToolsIdle
    /\ BatchIdle

\* categorize_procedure(procedure, services)
CategorizeProcedure ==
    /\ pc = "start"
    /\ \E p \in ProcedureInputs, s \in ServiceLists :
          call' = [op |-> "categorize_procedure", procedure |-> p, services |-> s,
                   result |-> categorize_procedure(p, s)]
    /\ pc' = "done"
    /\ UNCHANGED <<classifier, cases>>
    /\ UNCHANGED tool_vars
    /\ UNCHANGED batch_vars

\* categorize_cardiac(procedure_text)
CategorizeCardiac ==
    /\ pc = "start"
    /\ \E t \in CardiacTexts :
          call' = [op |-> "categorize_cardiac", procedure_text |-> t,
                   result |-> categorize_cardiac(t)]
    /\ pc' = "done"
    /\ UNCHANGED <<classifier, cases>>
    /\ UNCHANGED tool_vars
    /\ UNCHANGED batch_vars

\* CaseProcessor(column_map, use_ml=..., ml_threshold=...)
NewCaseProcessor ==
    /\ pc = "start"
    /\ \E use_ml \in BOOLEAN, artifact \in Artifacts, ml_threshold \in MLThresholds :
          LET made == CaseProcessor_init(use_ml, artifact, ml_threshold)
          IN  /\ call' = [op |-> "CaseProcessor", use_ml |-> use_ml]
              /\ IF "raised" \in DOMAIN made
                 THEN pc' = "raised" /\ UNCHANGED classifier
                 ELSE pc' = "ready" /\ classifier' = made
    /\ UNCHANGED cases
    /\ UNCHANGED tool_vars
    /\ UNCHANGED batch_vars

\* MLPredictor.load(model_path), as the training tools call it.
LoadPredictor ==
    /\ pc = "start"
    /\ \E artifact \in Artifacts :
          call' = [op |-> "MLPredictor.load", artifact |-> artifact,
                   result |-> MLPredictor_load(artifact)]
    /\ pc' = "done"
    /\ UNCHANGED <<classifier, cases>>
    /\ UNCHANGED tool_vars
    /\ UNCHANGED batch_vars

\* get_hybrid_classifier(model_path, ml_threshold)
LoadClassifier ==
    /\ pc = "start"
    /\ \E artifact \in Artifacts, ml_threshold \in MLThresholds :
          call' = [op |-> "get_hybrid_classifier", artifact |-> artifact,
                   result |-> get_hybrid_classifier(artifact, ml_threshold)]
    /\ pc' = "done"
    /\ UNCHANGED <<classifier, cases>>
    /\ UNCHANGED tool_vars
    /\ UNCHANGED batch_vars

\* normalize_category_label(category), and the normaliser applied again to
\* its own output.
NormalizeLabel ==
    /\ pc = "start"
    /\ \E category \in LabelInputs :
          call' = [op |-> "normalize_category_label", category |-> category,
                   result |-> normalize_category_label(category),
                   again |-> normalize_category_label(
                                 normalize_category_label(category))]
    /\ pc' = "done"
    /\ UNCHANGED <<classifier, cases>>
    /\ UNCHANGED tool_vars
    /\ UNCHANGED batch_vars

\* classifier.classify(procedure_text, services)
Classify ==
    /\ pc = "ready"
    /\ cases = << >>
    /\ \E p \in ClassifyProcedures, s \in ClassifyServiceLists :
          call' = [op |-> "classify", procedure_text |-> p, services |-> s,
                   result |-> classify(classifier, p, s)]
    /\ pc' = "done"
    /\ UNCHANGED <<classifier, cases>>
    /\ UNCHANGED tool_vars
    /\ UNCHANGED batch_vars

\* One row of process_dataframe: process_row appends the row's case.
ProcessRow ==
    /\ pc = "ready"
    /\ Len(cases) < MaxRows
    /\ \E row \in RowInputs :
          /\ cases' = Append(cases, process_row(classifier, row))
          /\ call' = [op |-> "process_row", row |-> row]
    /\ UNCHANGED <<pc, classifier>>
    /\ UNCHANGED tool_vars
    /\ UNCHANGED batch_vars

Next ==
    \/ CategorizeProcedure
    \/ CategorizeCardiac
    \/ NewCaseProcessor
    \/ LoadPredictor
    \/ LoadClassifier
    \/ NormalizeLabel
    \/ Classify
    \/ ProcessRow

Spec == Init /\ [][Next]_vars

(***************************************************************************)
(* The batch run                                                           *)
(***************************************************************************)
\* Residents with a case file and a procedure file.
MaxResidents == 2

BatchRow == [procedure |-> <<"O","F","F","-","P","U","M","P"," ","B","Y","P","A","S","S">>, services |-> <<"C","A","R","D","I","A","C">>]

BlankRow == [procedure |-> None, services |-> None]

\* A row whose processing raises.
BadRow ==
    [ procedure |-> <<"T","A","V","R">>, services |-> None,
      raises |-> <<"b","o","o","l","e","a","n"," ","v","a","l","u","e"," ","o","f"," ","N","A"," ","i","s"," ","a","m","b","i","g","u","o","u","s">> ]

\* The joined rows of one resident.
ResidentTables == { << >>, << BadRow >>, << BatchRow, BadRow, BlankRow >> }

\* --workers, and what os.cpu_count() returns (None as the empty tuple).
WorkerCounts == {0, 1, 2, 3}

CpuCounts == { << >>, << 1 >>, << 2 >>, << 3 >> }

Resident(rows) ==
    [ rows |-> rows, future |-> Queued, row_workers |-> 0,
      futures |-> [i \in DOMAIN rows |-> Queued], finished |-> << >>,
      parsed_cases |-> << >> ]

BatchInit ==
    /\ pc = "batch"
    /\ classifier = CaseProcessor_init(TRUE, [kind |-> "missing"], DEFAULT_ML_THRESHOLD)
    /\ call = [op |-> "none"]
    /\ cases = << >>
    /\ ToolsIdle
    /\ process_config \in [workers : WorkerCounts, cpu_count : CpuCounts]
    /\ residents \in [1..MaxResidents -> {Resident(rows) : rows \in ResidentTables}]

residents_future == [r \in DOMAIN residents |-> residents[r].future]

\* main: ThreadPoolExecutor(max_workers=process_config.workers) raises ValueError for
\* a count below 1; otherwise every resident is submitted.
StartBatch ==
    /\ pc = "batch"
    /\ pc' = IF process_config.workers <= 0 THEN "raised" ELSE "running"
    /\ UNCHANGED <<classifier, call, cases, process_config, residents>>
    /\ UNCHANGED tool_vars

\* A worker of the resident pool takes the next resident: process_resident up
\* to the call of process_dataframe, which submits the rows (no rows: return 0).
StartResident ==
    /\ pc = "running"
    /\ \E r \in DOMAIN residents :
          /\ NextQueued(residents_future, r)
          /\ Cardinality(RunningIn(residents_future)) < process_config.workers
          /\ residents' =
                [residents EXCEPT
                   ![r].future = IF residents[r].rows = << >> THEN [state |-> "done"]
                                 ELSE Running,
                   ![r].row_workers = IF residents[r].rows = << >> THEN 0
                                      ELSE row_workers_for(process_config.workers,
                                                           process_config.cpu_count)]
    /\ UNCHANGED <<pc, classifier, call, cases, process_config>>
    /\ UNCHANGED tool_vars

\* process_dataframe: a row worker (the calling thread, for one worker) takes
\* the next row.
StartRow ==
    /\ pc = "running"
    /\ \E r \in DOMAIN residents :
          /\ residents[r].future = Running
          /\ \E i \in DOMAIN residents[r].rows :
                /\ NextQueued(residents[r].futures, i)
                /\ Cardinality(RunningIn(residents[r].futures)) < residents[r].row_workers
                /\ residents' = [residents EXCEPT ![r].futures[i] = Running]
    /\ UNCHANGED <<pc, classifier, call, cases, process_config>>
    /\ UNCHANGED tool_vars

\* _process_row_safe returns for a row.
FinishRow ==
    /\ pc = "running"
    /\ \E r \in DOMAIN residents :
          \E i \in RunningIn(residents[r].futures) :
             residents' =
                [residents EXCEPT
                   ![r].futures[i] = [state |-> "done",
                                      result |-> process_row_safe(classifier, i - 1,
                                                                  residents[r].rows[i])],
                   ![r].finished = Append(@, i)]
    /\ UNCHANGED <<pc, classifier, call, cases, process_config>>
    /\ UNCHANGED tool_vars

\* process_dataframe returns the cases and process_resident writes them.
FinishResident ==
    /\ pc = "running"
    /\ \E r \in DOMAIN residents :
          /\ residents[r].future = Running
          /\ \A i \in DOMAIN residents[r].futures : residents[r].futures[i].state = "done"
          /\ residents' =
                [residents EXCEPT
                   ![r].future = [state |-> "done"],
                   ![r].parsed_cases =
                       results_in_order([i \in DOMAIN residents[r].futures |->
                                            residents[r].futures[i].result],
                                        residents[r].finished)]
    /\ UNCHANGED <<pc, classifier, call, cases, process_config>>
    /\ UNCHANGED tool_vars

\* main leaves the pool when every resident is done.
FinishBatch ==
    /\ pc = "running"
    /\ \A r \in DOMAIN residents : residents[r].future.state = "done"
    /\ pc' = "done"
    /\ UNCHANGED <<classifier, call, cases, process_config, residents>>
    /\ UNCHANGED tool_vars

BatchNext ==
    StartBatch \/ StartResident \/ StartRow \/ FinishRow \/ FinishResident \/ FinishBatch

BatchSpec == BatchInit /\ [][BatchNext]_vars

(***************************************************************************)
(* Properties of the rule engine                                           *)
(***************************************************************************)
\* The upper-cased procedure text of a call.
TextOf(procedure) == IF procedure = None THEN << >> ELSE upper(procedure)

\* Rule r matches the text and none of its exclude-keywords is in either text.
RuleApplies(r, service_upper, procedure_text) ==
    /\ any_in(PROCEDURE_RULES[r].keywords, service_upper)
    /\ ~any_in(PROCEDURE_RULES[r].exclude_keywords, service_upper)
    /\ ~any_in(PROCEDURE_RULES[r].exclude_keywords, procedure_text)

\* What one service contributes: the category of the first applicable rule,
\* then the OB/GYN resolver's category when the service names OB/GYN.
ServiceContribution(service, procedure_text) ==
    LET su == upper(service)
        fromRule ==
            IF \E r \in DOMAIN PROCEDURE_RULES : RuleApplies(r, su, procedure_text)
            THEN LET first == CHOOSE r \in DOMAIN PROCEDURE_RULES :
                                 /\ RuleApplies(r, su, procedure_text)
                                 /\ \A q \in 1..(r - 1) : ~RuleApplies(q, su, procedure_text)
                 IN  << apply_rule_category(PROCEDURE_RULES[first].category,
                                            procedure_text) >>
            ELSE << >>
        fromObgyn ==
            IF any_in(obgyn_service_keywords, su)
            THEN << categorize_obgyn(procedure_text) >>
            ELSE << >>
    IN  fromRule \o fromObgyn

\* The contributions of all services, in input order.
RECURSIVE Contributions(_, _)
Contributions(services, procedure_text) ==
    IF services = << >> THEN << >>
    ELSE ServiceContribution(Head(services), procedure_text)
             \o Contributions(Tail(services), procedure_text)

\* No rule, OB/GYN keyword or labor-epidural evidence in the services or in
\* the procedure text.
NoEvidence(procedure, services) ==
    LET text == TextOf(procedure)
    IN  /\ Contributions(services, text) = << >>
        /\ \A r \in DOMAIN PROCEDURE_RULES : ~RuleApplies(r, text, text)
        /\ ~any_in(cesarean_keywords, text)
        /\ ~any_in(vaginal_keywords, text)
        /\ ~Contains(text, LABOR_EPIDURAL)

\* C1: for every procedure value (None and "" included) and every list of
\* services, categorize_procedure returns one member of the taxonomy and a
\* list of warnings; without any rule, OB/GYN or labor-epidural evidence the
\* category is Other.
C1_CategorizeTotal ==
    call.op = "categorize_procedure" =>
        /\ call.result.category \in Taxonomy
        /\ DOMAIN call.result.warnings = 1..Len(call.result.warnings)
        /\ NoEvidence(call.procedure, call.services)
               => call.result.category = "OTHER" /\ call.result.warnings = << >>

\* C1 witness: a None procedure with a service that matches nothing gave Other.
C1_Witness ==
    /\ call.op = "categorize_procedure"
    /\ call.procedure = None
    /\ call.services = << <<"G","E","N","E","R","A","L">> >>
    /\ NoEvidence(call.procedure, call.services)
    /\ call.result.category = "OTHER"

\* C5: within one service the rules are tried in list order and the first
\* applicable rule decides; a service with both the Cardiac and the Vascular
\* keyword yields a Cardiac category and no Major-Vessels category.
C5_FirstRuleWins ==
    call.op = "categorize_procedure" =>
        LET text == TextOf(call.procedure)
            order == << "Cardiac", "Intracerebral", "Intrathoracic non-cardiac",
                        "Procedures Major Vessels", "Other (procedure cat)" >>
        IN  /\ \A r \in DOMAIN order : PROCEDURE_RULES[r].category = order[r]
            /\ \A i \in DOMAIN call.services :
                   \A c \in Range(ServiceContribution(call.services[i], text)) :
                       in_list(c, call.result.matched)
            /\ Len(call.services) = 1 =>
                   Range(call.result.matched)
                       = Range(ServiceContribution(call.services[1], text))
            /\ ( /\ Len(call.services) = 1
                 /\ Contains(upper(call.services[1]), <<"C","A","R","D","I","A","C">>)
                 /\ Contains(upper(call.services[1]), <<"V","A","S","C">>) )
                   => /\ call.result.category
                            \in {"CARDIAC_WITH_CPB", "CARDIAC_WITHOUT_CPB"}
                      /\ Range(call.result.categories)
                            \cap {"MAJOR_VESSELS_ENDOVASCULAR", "MAJOR_VESSELS_OPEN"} = {}

\* C5 witness: "CARDIAC VASC SURGERY" alone, on an off-pump text.
C5_Witness ==
    /\ call.op = "categorize_procedure"
    /\ call.services = << <<"C","A","R","D","I","A","C"," ","V","A","S","C"," ","S","U","R","G","E","R","Y">> >>
    /\ call.procedure = <<"O","F","F","-","P","U","M","P"," ","B","Y","P","A","S","S">>
    /\ call.result.category = "CARDIAC_WITHOUT_CPB"
    /\ call.result.warnings = << >>

\* C6 (as claimed): a rule whose keyword occurs in a service never fires when
\* one of its exclude-keywords occurs in that service or in the procedure
\* text: when every service naming the rule's keyword is excluded, the rule's
\* category is not among the categories, and with a single service to which
\* no other rule and no OB/GYN or labor evidence applies the result is Other.
C6_ExcludedRuleNeverFires ==
    call.op = "categorize_procedure" =>
        LET text == TextOf(call.procedure)
            Named(r, i) == any_in(PROCEDURE_RULES[r].keywords, upper(call.services[i]))
            Excluded(r, i) ==
                \/ any_in(PROCEDURE_RULES[r].exclude_keywords, upper(call.services[i]))
                \/ any_in(PROCEDURE_RULES[r].exclude_keywords, text)
        IN  \A r \in DOMAIN PROCEDURE_RULES :
                ( /\ PROCEDURE_RULES[r].category = "Intrathoracic non-cardiac"
                  /\ \E i \in DOMAIN call.services : Named(r, i)
                  /\ \A i \in DOMAIN call.services : Named(r, i) => Excluded(r, i) )
                    => /\ ~in_list("INTRATHORACIC_NON_CARDIAC", call.result.categories)
                       /\ ( /\ Len(call.services) = 1
                            /\ Contributions(call.services, text) = << >>
                            /\ ~any_in(cesarean_keywords, text)
                            /\ ~any_in(vaginal_keywords, text) )
                              => call.result.category = "OTHER"

\* C7: a warning is returned exactly when more than one distinct category
\* was accumulated over the services; it is then the one "Multiple procedure
\* categories" warning and the category is the first accumulated, services in
\* input order and rule match before OB/GYN resolver within a service.
C7_WarningIffAmbiguous ==
    call.op = "categorize_procedure" =>
        LET contributed == Contributions(call.services, TextOf(call.procedure))
        IN  /\ call.result.warnings # << >> <=> Cardinality(Range(contributed)) > 1
            /\ Cardinality(Range(contributed)) > 1 =>
                   /\ Len(call.result.warnings) = 1
                   /\ call.result.warnings[1].kind = "Multiple procedure categories"
                   /\ call.result.category = contributed[1]
            /\ Cardinality(Range(contributed)) <= 1 => call.result.warnings = << >>

\* C7 witness: one service whose rule match (Cardiac) precedes its OB/GYN
\* resolver result.
C7_Witness ==
    /\ call.op = "categorize_procedure"
    /\ call.services = << <<"O","B"," ","C","A","R","D","I","A","C">> >>
    /\ call.procedure = <<"C","e","s","a","r","e","a","n"," ","d","e","l","i","v","e","r","y">>
    /\ call.result.categories = << "CARDIAC_WITH_CPB", "CESAREAN" >>
    /\ call.result.category = "CARDIAC_WITH_CPB"
    /\ Len(call.result.warnings) = 1
    /\ call.result.warnings[1].kind = "Multiple procedure categories"

\* C8: with LABOR EPIDURAL in the upper-cased text and nothing or only Other
\* accumulated from services and text fallback, the result is
\* VaginalDelivery without a warning; ("Labor Epidural", []) gives
\* VaginalDelivery; an accumulated non-Other category is not replaced.
C8_LaborEpiduralOverride ==
    call.op = "categorize_procedure" =>
        LET text == TextOf(call.procedure)
            accumulated == call.result.accumulated
        IN  /\ ( /\ Contains(text, LABOR_EPIDURAL)
                 /\ (accumulated = << >> \/ accumulated = << "OTHER" >>) )
                   => /\ call.result.category = "VAGINAL_DELIVERY"
                      /\ call.result.warnings = << >>
            /\ (call.procedure = <<"L","a","b","o","r"," ","E","p","i","d","u","r","a","l">> /\ call.services = << >>)
                   => call.result.category = "VAGINAL_DELIVERY"
            /\ (\E c \in Range(accumulated) : c # "OTHER")
                   => /\ call.result.categories = accumulated
                      /\ call.result.category = accumulated[1]

\* C8 witness: a TRANSPLANT service left exactly [Other]; the labor-epidural
\* text forced VaginalDelivery.
C8_Witness ==
    /\ call.op = "categorize_procedure"
    /\ call.procedure = <<"L","a","b","o","r"," ","E","p","i","d","u","r","a","l">>
    /\ call.services = << <<"T","R","A","N","S","P","L","A","N","T">> >>
    /\ call.result.accumulated = << "OTHER" >>
    /\ call.result.category = "VAGINAL_DELIVERY"
    /\ call.result.warnings = << >>

\* C9: categorize_cardiac returns CardiacWithoutCPB whenever a no-CPB keyword
\* is in the text, a CPB keyword or not; otherwise CardiacWithCPB.
C9_NoCpbPrecedence ==
    call.op = "categorize_cardiac" =>
        call.result = IF any_in(no_cpb_keywords, call.procedure_text)
                      THEN "CARDIAC_WITHOUT_CPB"
                      ELSE "CARDIAC_WITH_CPB"

\* C9 witness: "OFF-PUMP BYPASS" holds a no-CPB and a CPB keyword.
C9_Witness ==
    /\ call.op = "categorize_cardiac"
    /\ call.procedure_text = <<"O","F","F","-","P","U","M","P"," ","B","Y","P","A","S","S">>
    /\ any_in(no_cpb_keywords, call.procedure_text)
    /\ any_in(cpb_keywords, call.procedure_text)
    /\ call.result = "CARDIAC_WITHOUT_CPB"

(***************************************************************************)
(* Properties of the hybrid classifier                                     *)
(***************************************************************************)
\* The rule engine's answer for the arguments of a classify call.
RuleOf(c) ==
    categorize_procedure(c.procedure_text,
                         IF c.services = NoServices THEN << >> ELSE c.services)

\* The label of the loaded model is the value of a taxonomy member.
ValidLabel(self) ==
    \E m \in Taxonomy : CategoryValue(m) = strip(self.ml_predictor.label)

\* That member.
LabelCategory(self) ==
    CHOOSE m \in Taxonomy : CategoryValue(m) = strip(self.ml_predictor.label)

\* C2: with a model loaded, a valid label and confidence >= 0.85 (0.85
\* included), classify returns the ML category with method ml_override; when
\* ML differs from the rules the alternative is the rule category and one
\* warning naming the rule category follows the rule warnings, otherwise the
\* alternative is null and the warnings are the rule warnings.
C2_MlOverride ==
    ( /\ call.op = "classify"
      /\ classifier.ml_predictor.loaded
      /\ ValidLabel(classifier)
      /\ classifier.ml_predictor.confidence >= 85 )
        => LET rule == RuleOf(call)
               ml == LabelCategory(classifier)
               r == call.result
           IN  /\ r.category = ml
               /\ r.method = "ml_override"
               /\ r.confidence = classifier.ml_predictor.confidence
               /\ ml # rule.category =>
                      /\ r.alternative = rule.category
                      /\ Len(r.warnings) = Len(rule.warnings) + 1
                      /\ SubSeq(r.warnings, 1, Len(rule.warnings)) = rule.warnings
                      /\ r.warnings[Len(r.warnings)].kind = "ML override"
                      /\ r.warnings[Len(r.warnings)].rules = rule.category
               /\ ml = rule.category =>
                      /\ r.alternative = NoValue
                      /\ r.warnings = rule.warnings

\* C2 witness: at exactly 0.85 the model's Other replaced the rules' cardiac
\* category.
C2_Witness ==
    /\ call.op = "classify"
    /\ classifier.ml_predictor.loaded
    /\ classifier.ml_predictor.confidence = 85
    /\ ValidLabel(classifier)
    /\ LabelCategory(classifier) = "OTHER"
    /\ RuleOf(call).category = "CARDIAC_WITHOUT_CPB"
    /\ call.result.category = "OTHER"
    /\ call.result.method = "ml_override"
    /\ call.result.alternative = "CARDIAC_WITHOUT_CPB"

\* C3: with ml_threshold 0.7 and a valid label: for 0.7 <= confidence < 0.85
\* classify returns the rule category, as rules_flagged with the ML category
\* as alternative and one appended warning when ML differs, as
\* rules_ml_agree with confidence 0.9 and no alternative when ML agrees; for
\* confidence < 0.7 it returns the rule category with method rules, no
\* alternative and only the rule warnings.
C3_ThresholdBranches ==
    ( /\ call.op = "classify"
      /\ classifier.ml_predictor.loaded
      /\ ValidLabel(classifier)
      /\ classifier.ml_threshold = 70 )
        => LET rule == RuleOf(call)
               ml == LabelCategory(classifier)
               conf == classifier.ml_predictor.confidence
               r == call.result
           IN  /\ conf < 85 => r.category = rule.category
               /\ (70 <= conf /\ conf < 85 /\ ml # rule.category) =>
                      /\ r.method = "rules_flagged"
                      /\ r.alternative = ml
                      /\ Len(r.warnings) = Len(rule.warnings) + 1
                      /\ SubSeq(r.warnings, 1, Len(rule.warnings)) = rule.warnings
                      /\ r.warnings[Len(r.warnings)].kind = "ML suggests"
                      /\ r.warnings[Len(r.warnings)].ml = ml
               /\ (70 <= conf /\ conf < 85 /\ ml = rule.category) =>
                      /\ r.method = "rules_ml_agree"
                      /\ r.confidence = 90
                      /\ r.alternative = NoValue
                      /\ r.warnings = rule.warnings
               /\ conf < 70 =>
                      /\ r.method = "rules"
                      /\ r.alternative = NoValue
                      /\ r.warnings = rule.warnings

\* C3 witness: at exactly 0.7 under the default threshold a differing model
\* only flagged the rule result.
C3_Witness ==
    /\ call.op = "classify"
    /\ classifier.ml_predictor.loaded
    /\ classifier.ml_threshold = 70
    /\ classifier.ml_predictor.confidence = 70
    /\ ValidLabel(classifier)
    /\ LabelCategory(classifier) # RuleOf(call).category
    /\ call.result.method = "rules_flagged"
    /\ call.result.category = RuleOf(call).category

\* C4: without a model, or with a label that is no taxonomy value (at any
\* confidence), classify returns the rule category with method rules,
\* confidence 0.8 when the rule engine warned and 1.0 otherwise, and no
\* alternative; for the invalid label the warnings are the rule warnings
\* followed by one warning naming the label.
C4_RulesFallback ==
    call.op = "classify" =>
        LET rule == RuleOf(call)
            r == call.result
            loaded == classifier.ml_predictor.loaded
        IN  /\ (~loaded \/ ~ValidLabel(classifier)) =>
                   /\ r.category = rule.category
                   /\ r.method = "rules"
                   /\ r.confidence = IF rule.warnings # << >> THEN 80 ELSE 100
                   /\ r.alternative = NoValue
            /\ ~loaded => r.warnings = rule.warnings
            /\ (loaded /\ ~ValidLabel(classifier)) =>
                   r.warnings = Append(rule.warnings,
                                       [kind |-> "ML returned invalid category",
                                        label |-> strip(classifier.ml_predictor.label)])

\* C4 witness: an invalid label at confidence 0.9 on a call whose rule
\* result carried a warning.
C4_Witness ==
    /\ call.op = "classify"
    /\ classifier.ml_predictor.loaded
    /\ ~ValidLabel(classifier)
    /\ classifier.ml_predictor.confidence = 90
    /\ RuleOf(call).warnings # << >>
    /\ call.result.method = "rules"
    /\ call.result.confidence = 80
    /\ Len(call.result.warnings) = 2

(***************************************************************************)
(* Properties of the processor                                             *)
(***************************************************************************)
\* C10 (as claimed): the category written for a row is the processor's
\* HybridClassifier's decision for the row's procedure and services; with a
\* model loaded that predicts a valid category at confidence >= 0.85 the
\* written category is the ML category.
C10_RowCategoryIsHybridDecision ==
    \A i \in DOMAIN cases :
        /\ cases[i].procedure_category
               = classify(classifier, cases[i].procedure, cases[i].services).category
        /\ ( /\ classifier.ml_predictor.loaded
             /\ ValidLabel(classifier)
             /\ classifier.ml_predictor.confidence >= 85 )
               => cases[i].procedure_category = LabelCategory(classifier)

(***************************************************************************)
(* Properties of model loading                                             *)
(***************************************************************************)
\* The load of the call ended in an exception.
LoadRaised == "raised" \in DOMAIN call.result

\* C11 (as claimed): loading from a path where nothing is, or from an
\* artifact without a pipeline entry, fails with a typed error, through
\* MLPredictor.load and through get_hybrid_classifier alike; no load of a
\* missing artifact yields a classifier.
C11_LoadFailsTyped ==
    ( /\ call.op \in {"MLPredictor.load", "get_hybrid_classifier"}
      /\ call.artifact.kind \in {"missing", "no_pipeline"} )
        => /\ LoadRaised
           /\ call.result.raised \in {"FileNotFoundError", "ValueError"}

\* C11 (amended): MLPredictor.load raises FileNotFoundError for a missing
\* path and ValueError for an artifact without a pipeline;
\* get_hybrid_classifier raises that ValueError too, but for a missing path
\* it returns a classifier without a predictor (rules only); an artifact
\* with a pipeline always loads.
C11_LoadFailsTypedExceptMissingPath ==
    /\ call.op = "MLPredictor.load" =>
           /\ call.artifact.kind = "missing" =>
                  LoadRaised /\ call.result.raised = "FileNotFoundError"
           /\ call.artifact.kind = "no_pipeline" =>
                  LoadRaised /\ call.result.raised = "ValueError"
           /\ call.artifact.kind = "pipeline" => ~LoadRaised /\ call.result.loaded
    /\ call.op = "get_hybrid_classifier" =>
           /\ call.artifact.kind = "no_pipeline" =>
                  LoadRaised /\ call.result.raised = "ValueError"
           /\ call.artifact.kind = "missing" =>
                  /\ ~LoadRaised
                  /\ call.result.constructed
                  /\ call.result.ml_predictor = NoPredictor
           /\ call.artifact.kind = "pipeline" =>
                  ~LoadRaised /\ call.result.ml_predictor.loaded

\* C11 witness: get_hybrid_classifier on a missing path returned a
\* rules-only classifier.
C11_Witness ==
    /\ call.op = "get_hybrid_classifier"
    /\ call.artifact.kind = "missing"
    /\ ~LoadRaised
    /\ call.result.ml_predictor = NoPredictor

\* C20 (as claimed): for every configured ml_threshold, a valid prediction
\* with confidence below the threshold leaves the rules-only result: the
\* rule category, method rules, no alternative, the rule warnings only.
C20_BelowThresholdIsRulesOnly ==
    ( /\ call.op = "classify"
      /\ classifier.ml_predictor.loaded
      /\ ValidLabel(classifier)
      /\ classifier.ml_predictor.confidence < classifier.ml_threshold )
        => /\ call.result.category = RuleOf(call).category
           /\ call.result.method = "rules"
           /\ call.result.alternative = NoValue
           /\ call.result.warnings = RuleOf(call).warnings

(***************************************************************************)
(* Properties of the training tools                                        *)
(***************************************************************************)
\* C17: normalize_category_label is idempotent, maps every canonical
\* taxonomy string to itself, maps "ProcedureCategory.<MEMBER>" to the
\* member's canonical string, and maps a missing label to Other.
C17_NormalizeIdempotent ==
    call.op = "normalize_category_label" =>
        /\ call.again = call.result
        /\ \A m \in Taxonomy :
               /\ call.category = CategoryValue(m) => call.result = CategoryValue(m)
               /\ call.category = <<"P","r","o","c","e","d","u","r","e","C","a","t","e","g","o","r","y",".">> \o MemberName(m)
                      => call.result = CategoryValue(m)
        /\ call.category = None => call.result = <<"O","t","h","e","r"," ","(","p","r","o","c","e","d","u","r","e"," ","c","a","t",")">>

\* C17 witness: a qualified member was collapsed to its canonical string.
C17_Witness ==
    /\ call.op = "normalize_category_label"
    /\ call.category = <<"P","r","o","c","e","d","u","r","e","C","a","t","e","g","o","r","y",".","C","A","R","D","I","A","C","_","W","I","T","H","O","U","T","_","C","P","B">>
    /\ call.result = <<"C","a","r","d","i","a","c"," ","w","i","t","h","o","u","t"," ","C","P","B">>
    /\ call.again = call.result

(***************************************************************************)
(* Properties of the review session                                        *)
(***************************************************************************)
\* Decisions of this session that staged a label (everything but skips).
AppliedDecisions == metrics.reviewed_this_session - metrics.skipped

\* The procedure texts of the cases the reviewer has been through.
ReviewedProcedures == {queue[i].procedure : i \in 1..current_index}

\* How many of those cases repeat the text of an earlier one.
RepeatedProcedures == current_index - Cardinality(ReviewedProcedures)

LabelRows == files.review_labels.content.rows

NoProcedureTwice(rows) ==
    \A i, j \in DOMAIN rows : rows[i].procedure = rows[j].procedure => i = j

\* C12 (as stated): in a session started without a labels file, after exactly
\* 10 applied decisions the labels file has 10 rows and the staged buffer is
\* empty.
C12_TenRowsAfterTenDecisions ==
    AppliedDecisions = 10 =>
        /\ metrics.staged_labels = << >>
        /\ files.review_labels.exists
        /\ Len(LabelRows) = 10

\* C12 (amended): in a session started without a labels file, after exactly
\* 10 applied decisions the staged buffer is empty and the labels file holds
\* one row per distinct procedure text decided: no text twice, at most 10
\* rows, and 10 rows when the decided texts are pairwise distinct.
C12_OneRowPerProcedureAfterTenDecisions ==
    AppliedDecisions = 10 =>
        /\ metrics.staged_labels = << >>
        /\ files.review_labels.exists
        /\ NoProcedureTwice(LabelRows)
        /\ Len(LabelRows) <= 10
        /\ Len(LabelRows) >= 10 - RepeatedProcedures
        /\ \A i \in DOMAIN LabelRows : LabelRows[i].procedure \in ReviewedProcedures

C12_Witness ==
    /\ AppliedDecisions = 10
    /\ RepeatedProcedures = 0
    /\ files.review_labels.exists
    /\ Len(LabelRows) = 10
    /\ metrics.staged_labels = << >>

RecordedIndices ==
    IF /\ files.progress.exists
       /\ DOMAIN files.progress.content = {"data_path", "model_path", "reviewed_indices"}
       /\ files.progress.content.data_path = DATA_PATH
       /\ files.progress.content.model_path = MODEL_PATH
    THEN Range(files.progress.content.reviewed_indices)
    ELSE {}

\* A session that has been set up and has not taken a decision yet.
SessionJustBuilt == runtime.built /\ metrics.reviewed_this_session = 0

\* C14: a session starts from the indices the progress file records only when
\* resume is requested and the file's data_path and model_path both equal the
\* current ones; otherwise it starts from the empty set; and no case of the
\* queue has an index in the loaded set.
C14_ResumeOnlyOnMatchingPaths ==
    SessionJustBuilt =>
        /\ runtime.reviewed_indices =
               IF runtime.config.resume THEN RecordedIndices ELSE {}
        /\ \A i \in DOMAIN queue : queue[i].index \notin runtime.reviewed_indices

C14_Witness ==
    /\ SessionJustBuilt
    /\ runtime.config.resume
    /\ runtime.reviewed_indices = {0, 2}
    /\ queue # << >>
    /\ \E i \in DOMAIN files.data.content :
          strip(files.data.content[i].procedure) # << >> /\ (i - 1) \in runtime.reviewed_indices


(***************************************************************************)
(* Properties of the retrain command                                       *)
(***************************************************************************)
\* The runs that prepared the datasets and, of those, the summaries.
Prepared(i) == i \in DOMAIN runs /\ runs[i].raised = "none"

Blank(text) == \A i \in DOMAIN text : text[i] \in Whitespace

\* No row of the labels table gives an override: every procedure cell is blank.
NoOverrides(labels) ==
    \A i \in DOMAIN labels.rows :
        labels.rows[i].procedure # NaN /\ Blank(labels.rows[i].procedure)

\* The failures C16 lists, read off the files and the --force flag.
MustFail(fs, force) ==
    \/ ~fs.seen.exists \/ ~fs.unseen.exists \/ ~fs.review_labels.exists
    \/ ~force /\ (fs.retrain_output.exists \/ fs.eval_output.exists)
    \/ "procedure" \notin fs.review_labels.content.columns
    \/ "human_category" \notin fs.review_labels.content.columns
    \/ NoOverrides(fs.review_labels.content)

LastRun == runs[Len(runs)]

\* C16: when an input file is missing, an output file exists and overwrite was
\* not requested, the review labels lack the procedure or the human_category
\* column, or no override is left, the preparation raises, both output files
\* stay as they were and the retraining stage is not started.
C16_FailsBeforeWriting ==
    [][ (Len(runs') = Len(runs) + 1 /\ MustFail(files, runs'[Len(runs')].force)) =>
            /\ runs'[Len(runs')].raised \in {"RuntimeError", "ValueError"}
            /\ runs'[Len(runs')].returned = 1
            /\ ~runs'[Len(runs')].stage_started
            /\ files'.retrain_output = files.retrain_output
            /\ files'.eval_output = files.eval_output
            /\ files' = files ]_vars

C16_Witness ==
    /\ Len(runs) = 2
    /\ runs[1].raised = "RuntimeError" /\ ~runs[1].force
    /\ runs[2].raised = "ValueError" /\ runs[2].force
    /\ ~runs[2].stage_started
    /\ files.seen.exists /\ files.unseen.exists /\ files.review_labels.exists
    /\ files.retrain_output = EarlierOutput
    /\ ~files.eval_output.exists


(***************************************************************************)
(* Properties of the batch run                                             *)
(***************************************************************************)
\* The residents being processed, and the rows of a resident being processed.
ResidentsInFlight == {r \in DOMAIN residents : residents[r].future = Running}

RowsInFlight(r) == RunningIn(residents[r].futures)

\* C18: row-level and resident-level parallelism are never nested. With
\* workers > 1 every resident's rows get exactly one row worker; a resident
\* gets more than one row worker, and never more than the CPU count, only when
\* residents are processed one at a time; so rows of a resident run side by
\* side only while no other resident is being processed.
C18_ParallelismNeverNested ==
    /\ \A r \in ResidentsInFlight :
          /\ process_config.workers > 1 => residents[r].row_workers = 1
          /\ residents[r].row_workers > 1 =>
                /\ process_config.workers = 1
                /\ ResidentsInFlight = {r}
          /\ residents[r].row_workers >= 1
          /\ process_config.cpu_count # << >> =>
                residents[r].row_workers <= process_config.cpu_count[1]
          /\ Cardinality(RowsInFlight(r)) <= residents[r].row_workers
    /\ Cardinality(ResidentsInFlight) > 1 =>
          \A r \in ResidentsInFlight : Cardinality(RowsInFlight(r)) <= 1
    /\ Cardinality(ResidentsInFlight) <= process_config.workers

\* Two residents are processed side by side, each on one row.
C18_Witness ==
    /\ Cardinality(ResidentsInFlight) = 2
    /\ \A r \in ResidentsInFlight :
          residents[r].row_workers = 1 /\ Cardinality(RowsInFlight(r)) = 1
    /\ process_config.cpu_count = << 3 >>

\* One resident is processed, with several of its rows side by side.
C18_WitnessSequential ==
    \E r \in DOMAIN residents :
        /\ ResidentsInFlight = {r}
        /\ process_config.workers = 1
        /\ Cardinality(RowsInFlight(r)) = 3

\* A resident whose process_dataframe has returned.
Returned(r) == residents[r].future.state = "done" /\ residents[r].rows # << >>

\* C19: process_dataframe returns one case per input row in row order for
\* every worker count >= 1; a row whose processing raises gives a placeholder
\* with confidence 0.0 and a warning carrying the failure text; every other
\* row gives the case process_row produces for it on its own.
C19_OneCasePerRowInOrder ==
    \A r \in DOMAIN residents :
        Returned(r) =>
            /\ residents[r].row_workers >= 1
            /\ Len(residents[r].parsed_cases) = Len(residents[r].rows)
            /\ \A i \in DOMAIN residents[r].rows :
                  IF "raises" \in DOMAIN residents[r].rows[i]
                  THEN /\ "confidence_score" \in DOMAIN residents[r].parsed_cases[i]
                       /\ residents[r].parsed_cases[i].confidence_score = 0
                       /\ residents[r].parsed_cases[i].parsing_warnings
                              = << <<"F","a","i","l","e","d"," ","t","o"," ","p","r","o","c","e","s","s"," ","r","o","w",":"," ","b","o","o","l","e","a","n"," ","v","a","l","u","e"," ","o","f"," ","N","A"," ","i","s"," ","a","m","b","i","g","u","o","u","s">> >>
                       /\ residents[r].parsed_cases[i].procedure = None
                  ELSE /\ residents[r].parsed_cases[i].procedure = residents[r].rows[i].procedure
                       /\ residents[r].parsed_cases[i]
                              = process_row(classifier, residents[r].rows[i])

\* A table with a failing row in the middle was processed by three row
\* workers, and the rows did not finish in row order.
C19_Witness ==
    \E r \in DOMAIN residents :
        /\ Returned(r)
        /\ residents[r].row_workers = 3
        /\ Len(residents[r].rows) = 3
        /\ residents[r].finished = << 3, 2, 1 >>
        /\ residents[r].parsed_cases[2].confidence_score = 0
        /\ residents[r].parsed_cases[1].procedure_category = "CARDIAC_WITHOUT_CPB"


(***************************************************************************)
(* Further properties of the hybrid classifier                             *)
(***************************************************************************)
\* What classify reports for the call's arguments when no model is used.
RulesOnlyResult == classify([classifier EXCEPT !.ml_predictor = NoPredictor],
                            call.procedure_text, call.services)

\* C21 (as claimed): for the same rule output, the confidence of a
\* rules_ml_agree result is higher than the confidence classify reports for
\* method rules or rules_flagged.
C21_AgreementBoostsConfidence ==
    (call.op = "classify" /\ call.result.method = "rules_ml_agree") =>
        /\ call.result.confidence = 90
        /\ call.result.confidence > RulesOnlyResult.confidence
        /\ call.result.confidence > rule_confidence(RuleOf(call).warnings)

\* A warning classify adds for an override.
IsOverrideWarning(warning) == "kind" \in DOMAIN warning /\ warning.kind = "ML override"

\* C22: classify never silently changes the rule output. The returned
\* category is the rule category unless method = ml_override; when it differs
\* from the rule category, alternative is the rule category and the warnings
\* contain an ML-override warning; and the rule engine's warnings are the
\* first of the returned warnings, in order.
C22_NoSilentChange ==
    call.op = "classify" =>
        /\ call.result.method # "ml_override" =>
               call.result.category = RuleOf(call).category
        /\ call.result.category # RuleOf(call).category =>
               /\ call.result.alternative = RuleOf(call).category
               /\ \E i \in DOMAIN call.result.warnings :
                     /\ i > Len(RuleOf(call).warnings)
                     /\ IsOverrideWarning(call.result.warnings[i])
                     /\ call.result.warnings[i].rules = RuleOf(call).category
        /\ Len(call.result.warnings) >= Len(RuleOf(call).warnings)
        /\ SubSeq(call.result.warnings, 1, Len(RuleOf(call).warnings))
               = RuleOf(call).warnings

C22_Witness ==
    /\ call.op = "classify"
    /\ call.result.method = "ml_override"
    /\ call.result.category # RuleOf(call).category
    /\ RuleOf(call).warnings # << >>
    /\ Len(call.result.warnings) = Len(RuleOf(call).warnings) + 1


(***************************************************************************)
(* Further properties of the rule engine                                   *)
(***************************************************************************)
\* No service of the list holds a keyword of a rule or an OB/GYN keyword.
NoServiceMatches(services) ==
    \A i \in DOMAIN services :
        /\ \A r \in DOMAIN PROCEDURE_RULES :
              ~any_in(PROCEDURE_RULES[r].keywords, upper(services[i]))
        /\ ~any_in(obgyn_service_keywords, upper(services[i]))

\* The rules with a keyword in the text and no exclude-keyword in it.
TextRules(text) ==
    { r \in DOMAIN PROCEDURE_RULES :
        /\ \E k \in DOMAIN PROCEDURE_RULES[r].keywords :
              Contains(text, PROCEDURE_RULES[r].keywords[k])
        /\ \A x \in DOMAIN PROCEDURE_RULES[r].exclude_keywords :
              ~Contains(text, PROCEDURE_RULES[r].exclude_keywords[x]) }

\* The rule of highest priority among them.
FirstTextRule(text) == CHOOSE r \in TextRules(text) : \A q \in TextRules(text) : r <= q

\* The labor-epidural step replaces what was accumulated.
LaborForced(result) ==
    /\ result.accumulated \in {<< >>, << "OTHER" >>}
    /\ Contains(result.procedure_text, LABOR_EPIDURAL)

\* The call is categorize_procedure with a text and without a matching service.
FallbackCall ==
    /\ call.op = "categorize_procedure"
    /\ TextOf(call.procedure) # << >>
    /\ NoServiceMatches(call.services)

\* C23: when the service list is empty or no service holds a rule keyword or
\* an OB/GYN keyword, and the procedure text is not empty, the rules are
\* matched in priority order against the upper-cased procedure text with the
\* exclusions tested on that text, and the first rule not excluded decides
\* the category; the OB/GYN resolver is asked about the text only when no
\* rule matched.  (The labor-epidural step that follows is the one exception
\* to "decides": it replaces an empty or Other-only accumulation.)
C23_TextFallbackInPriorityOrder ==
    FallbackCall =>
        /\ call.result.matched = << >>
        /\ TextRules(TextOf(call.procedure)) # {} =>
              call.result.accumulated =
                  << apply_rule_category(
                        PROCEDURE_RULES[FirstTextRule(TextOf(call.procedure))].category,
                        TextOf(call.procedure)) >>
        /\ TextRules(TextOf(call.procedure)) = {} =>
              call.result.accumulated =
                  IF categorize_obgyn(TextOf(call.procedure)) = "OTHER" THEN << >>
                  ELSE << categorize_obgyn(TextOf(call.procedure)) >>
        /\ (~LaborForced(call.result) /\ call.result.accumulated # << >>) =>
              /\ call.result.category = call.result.accumulated[1]
              /\ call.result.warnings = << >>

\* A fallback call with a service in the list, on a text in which a rule is
\* excluded, a later rule applies, or a rule applies next to an OB/GYN keyword.
C23_Witness ==
    /\ FallbackCall
    /\ call.services # << >>
    /\ TextRules(TextOf(call.procedure)) # {}
    /\ categorize_obgyn(TextOf(call.procedure)) = "CESAREAN"
    /\ call.result.category = "INTRATHORACIC_NON_CARDIAC"

C23_WitnessExcluded ==
    /\ FallbackCall
    /\ Contains(TextOf(call.procedure), PROCEDURE_RULES[3].keywords[1])
    /\ 3 \notin TextRules(TextOf(call.procedure))
    /\ FirstTextRule(TextOf(call.procedure)) = 4
    /\ call.result.category = "MAJOR_VESSELS_OPEN"


\* The service names OB/GYN.
ObgynService(service) ==
    \/ Contains(upper(service), <<"G","Y","N">>)
    \/ Contains(upper(service), <<"O","B">>)
    \/ Contains(upper(service), <<"O","B","S","T","E","T">>)

HasCesareanKeyword(text) ==
    \E kw \in { <<"C","E","S","A","R","E","A","N">>, <<"C","-","S","E","C","T","I","O","N">>, <<"C"," ","S","E","C","T","I","O","N">> } : Contains(text, kw)

HasVaginalKeyword(text) ==
    \E kw \in { <<"L","A","B","O","R"," ","E","P","I","D","U","R","A","L">>, <<"V","A","G","I","N","A","L">>, <<"D","E","L","I","V","E","R","Y">>, <<"L","A","B","O","R">> } :
        Contains(text, kw)

\* The OB/GYN subtype of a text: cesarean keywords before vaginal/labor ones.
ObgynSubtype(text) ==
    IF HasCesareanKeyword(text) THEN "CESAREAN"
    ELSE IF HasVaginalKeyword(text) THEN "VAGINAL_DELIVERY"
    ELSE "OTHER"

\* A rule applies to service i of the call.
RuleMatchedService(i) ==
    \E r \in DOMAIN PROCEDURE_RULES :
        RuleApplies(r, upper(call.services[i]), TextOf(call.procedure))

\* C24: for every service containing GYN, OB or OBSTET the OB/GYN resolver's
\* result is among the categories accumulated from the services, whether or
\* not a rule also matched that service; that result is Cesarean when the
\* text has a cesarean keyword (also next to a vaginal/labor keyword),
\* VaginalDelivery when it has only vaginal/labor keywords, Other when it has
\* neither.
C24_ObgynResolverAlwaysAccumulated ==
    call.op = "categorize_procedure" =>
        \A i \in DOMAIN call.services :
            ObgynService(call.services[i]) =>
                /\ in_list(ObgynSubtype(TextOf(call.procedure)), call.result.matched)
                /\ in_list(ObgynSubtype(TextOf(call.procedure)), call.result.accumulated)

\* A service that a rule matched and that names OB, on a text with a cesarean
\* and a vaginal/labor keyword.
C24_Witness ==
    /\ call.op = "categorize_procedure"
    /\ \E i \in DOMAIN call.services :
          /\ ObgynService(call.services[i])
          /\ RuleMatchedService(i)
    /\ HasCesareanKeyword(TextOf(call.procedure))
    /\ HasVaginalKeyword(TextOf(call.procedure))
    /\ Len(call.result.matched) = 2
    /\ call.result.matched[2] = "CESAREAN"


(***************************************************************************)
(* Further properties of the review session                                *)
(***************************************************************************)
\* The rows of the data file, and the row a case index (0-based) stands for.
DataRows == files.data.content
DataRow(index) == DataRows[index + 1]

\* The pipeline's label for the row differs from the rule engine's.
Disagrees(row) ==
    normalize_category_label(row.ml_prediction)
        # rule_prediction_for_procedure(strip(row.procedure))

\* The row passes the focus filter.
PassesFocus(row, focus, low_confidence) ==
    CASE focus = "all" -> TRUE
      [] focus = "disagreement" -> Disagrees(row)
      [] focus = "low_confidence" -> row.ml_confidence < low_confidence
      [] focus = "priority" -> Disagrees(row) \/ row.ml_confidence < low_confidence

\* Indices of the evaluated rows (those with a procedure text) that pass.
PassingIndices ==
    { i \in 0..(Len(DataRows) - 1) :
        /\ strip(DataRow(i).procedure) # << >>
        /\ PassesFocus(DataRow(i), runtime.config.focus, runtime.config.low_confidence) }

QueueIndices == {queue[k].index : k \in DOMAIN queue}

\* C25: the queue of a session holds exactly the evaluated rows (rows with a
\* procedure text) that pass the focus filter -- all: every row;
\* disagreement: rows on which pipeline and rules differ; low_confidence:
\* rows with ml_confidence strictly below the threshold; priority: the union
\* of the two -- less the rows already reviewed on resume and cut to
\* max_cases; and it is ordered with the disagreement cases first and, within
\* each group, by ascending ml_confidence.
C25_QueueFilteredAndOrdered ==
    runtime.built =>
        /\ \A k \in DOMAIN queue :
              /\ queue[k].index \in 0..(Len(DataRows) - 1)
              /\ queue[k].procedure = strip(DataRow(queue[k].index).procedure)
              /\ queue[k].ml_confidence = DataRow(queue[k].index).ml_confidence
              /\ queue[k].disagreement = Disagrees(DataRow(queue[k].index))
        /\ \A k, l \in DOMAIN queue :
              k < l => /\ queue[k].index # queue[l].index
                       /\ queue[l].disagreement => queue[k].disagreement
                       /\ queue[k].disagreement = queue[l].disagreement =>
                              queue[k].ml_confidence <= queue[l].ml_confidence
        /\ QueueIndices \subseteq PassingIndices
        /\ (SessionJustBuilt /\ runtime.config.max_cases = << >>) =>
              QueueIndices = PassingIndices \ runtime.reviewed_indices
        /\ (SessionJustBuilt /\ runtime.config.max_cases # << >>) =>
              /\ QueueIndices \subseteq PassingIndices \ runtime.reviewed_indices
              /\ Len(queue) <= runtime.config.max_cases[1]
              /\ Len(queue) < runtime.config.max_cases[1] =>
                     QueueIndices = PassingIndices \ runtime.reviewed_indices

\* Focus all on the short data set: the disagreement case (0.85) comes before
\* the agreeing ones (0.40, then 0.80), and the blank row is no case.
C25_Witness ==
    /\ SessionJustBuilt
    /\ runtime.config.focus = "all"
    /\ runtime.reviewed_indices = {}
    /\ Len(queue) = 3
    /\ <<queue[1].index, queue[2].index, queue[3].index>> = <<2, 3, 0>>
    /\ queue[1].ml_confidence > queue[2].ml_confidence

\* Focus low_confidence: the row at the threshold is left out.
C25_WitnessLowConfidence ==
    /\ SessionJustBuilt
    /\ runtime.config.focus = "low_confidence"
    /\ runtime.reviewed_indices = {}
    /\ runtime.config.max_cases = << >>
    /\ QueueIndices = {3}
    /\ DataRow(0).ml_confidence = runtime.config.low_confidence


\* A step marks a case reviewed: the reviewed set or the progress file changes.
MarksReviewed ==
    \/ runtime'.reviewed_indices # runtime.reviewed_indices
    \/ files'.progress # files.progress

\* A step stages one label record (it may be written out in the same step).
StagesLabel ==
    metrics'.reviewed_this_session - metrics'.skipped = AppliedDecisions + 1

\* A step is a Skip or a Quit.
SkipOrQuit ==
    \/ metrics'.skipped # metrics.skipped
    \/ metrics'.quit_requested # metrics.quit_requested

\* C26 (as claimed): during a review a case index is added to the reviewed
\* set and the progress file rewritten exactly in the steps that stage a
\* label record (Accept, ChooseRule, ChooseML, ChooseOther, NumericOverride);
\* Skip and Quit stage no label and leave the reviewed set and the progress
\* file as they are.
C26_MarkedExactlyWhenLabelStaged ==
    [][ pc = "reviewing" =>
           /\ MarksReviewed <=> StagesLabel
           /\ SkipOrQuit => ~MarksReviewed /\ ~StagesLabel ]_vars


\* The rows a reader of the labels file gets.
ReadRows(output_file) == read_review_labels(output_file).rows

\* The rows of the file followed by the staged labels, as a reader sees them:
\* what a write of the staged labels merges.
Pending(output_file, staged_labels) ==
    ReadRows(output_file)
        \o [ i \in DOMAIN staged_labels |-> read_label_row(staged_labels[i]) ]

TextsOf(rows) == {rows[i].procedure : i \in DOMAIN rows}

\* The last row of a procedure text.
LastRow(rows, text) ==
    rows[CHOOSE i \in DOMAIN rows :
            /\ rows[i].procedure = text
            /\ \A j \in (i + 1)..Len(rows) : rows[j].procedure # text]

\* The row records a decision on the case.
DecisionOn(row, case) ==
    /\ row.procedure = case.procedure
    /\ row.source_case_id = case.index
    /\ row.rule_category = case.rule_prediction
    /\ row.ml_category = case.ml_prediction
    /\ row.human_category \in {normalize_category_label(c) : c \in Range(LABEL_CATEGORIES)}
                                  \cup {case.rule_prediction, case.ml_prediction}

\* A decision on the case becomes the last row of its text; the last rows of
\* the other texts stay.
DecisionRecorded(before, after, case) ==
    /\ TextsOf(after) = TextsOf(before) \cup {case.procedure}
    /\ DecisionOn(LastRow(after, case.procedure), case)
    /\ \A text \in TextsOf(before) \ {case.procedure} :
          LastRow(after, text) = LastRow(before, text)

\* Nothing is recorded and nothing is lost.
LabelsKept(before, after) ==
    /\ TextsOf(after) = TextsOf(before)
    /\ \A text \in TextsOf(before) : LastRow(after, text) = LastRow(before, text)

\* The file holds one row for each text, the last of the pending rows.
AllMerged(rows, pending) ==
    /\ TextsOf(rows) = TextsOf(pending)
    /\ \A text \in TextsOf(pending) :
          /\ Cardinality({i \in DOMAIN rows : rows[i].procedure = text}) = 1
          /\ LastRow(rows, text) = LastRow(pending, text)

\* C27: when a review session ends by Quit or by exhaustion of the queue,
\* every label staged during the session has been merged into the output
\* file: for each procedure text decided in the session the file holds
\* exactly one row, that of the most recent decision, and the rows the file
\* already had for other texts are retained.  Stated step by step: a decision
\* becomes the last row of its text among the file's rows and the staged
\* labels, no step loses the last row of another text, and the step that
\* ends the session leaves the file with exactly one row per text, the last.
C27_AllStagedLabelsMergedAtExit ==
    [][ pc = "reviewing" =>
           /\ StagesLabel =>
                 DecisionRecorded(Pending(files.review_labels, metrics.staged_labels),
                                  Pending(files'.review_labels, metrics'.staged_labels),
                                  queue[current_index + 1])
           /\ ~StagesLabel =>
                 LabelsKept(Pending(files.review_labels, metrics.staged_labels),
                            Pending(files'.review_labels, metrics'.staged_labels))
           /\ pc' = "returned_0" =>
                 AllMerged(ReadRows(files'.review_labels),
                           Pending(files'.review_labels, metrics'.staged_labels)) ]_vars

\* A session on the short data set that started with a labels file, decided
\* the text of that file's row and another text, and ended with the staged
\* labels written: the file has the new decision for the old text.
C27_Witness ==
    /\ pc = "returned_0"
    /\ runtime.built
    /\ Len(metrics.staged_labels) >= 2
    /\ AppliedDecisions = Len(metrics.staged_labels)
    /\ files.review_labels.exists
    /\ AllMerged(ReadRows(files.review_labels),
                 [ i \in DOMAIN metrics.staged_labels |->
                     read_label_row(metrics.staged_labels[i]) ])
    /\ \E i, j \in DOMAIN metrics.staged_labels :
          /\ i < j
          /\ metrics.staged_labels[i].procedure = metrics.staged_labels[j].procedure
          /\ metrics.staged_labels[i].human_category
                 # metrics.staged_labels[j].human_category
          /\ LastRow(ReadRows(files.review_labels),
                     metrics.staged_labels[j].procedure).human_category
                 = metrics.staged_labels[j].human_category


\* A session that decided one text and left the file's row of another text.
C27_WitnessRetained ==
    /\ pc = "returned_0"
    /\ runtime.built
    /\ Len(metrics.staged_labels) = 1
    /\ files.review_labels.exists
    /\ Len(LabelRows) = 2
    /\ LabelRows[1].procedure # metrics.staged_labels[1].procedure
    /\ LabelRows[1].human_category = EarlierLabels[1].human_category
    /\ LabelRows[2].procedure = metrics.staged_labels[1].procedure


(***************************************************************************)
(* Further properties of the retrain command                               *)
(***************************************************************************)
\* The last run prepared the datasets: the output files are its outputs.
MergeDone == Len(runs) > 0 /\ Prepared(Len(runs))

\* The frames the merge is given: the input files with the label column
\* normalized and the procedure key added; and the override map.
SeenFrame == keyed_frame(files.seen.content, LABEL_COLUMN).rows
UnseenFrame == keyed_frame(files.unseen.content, LABEL_COLUMN).rows
OverrideMap == load_override_map(files.review_labels.content).map

RetrainRows == files.retrain_output.content.rows
EvalRows == files.eval_output.content.rows

\* The key of a row of an output file (the key column is not written): that
\* of its procedure cell, in the AIMS column when the row has a value there.
OutputKey(row) ==
    normalize_procedure_key(
        IF "AIMS_Actual_Procedure_Text" \in DOMAIN row
              /\ row["AIMS_Actual_Procedure_Text"] # NaN
        THEN row["AIMS_Actual_Procedure_Text"]
        ELSE row.procedure)

KeysOf(frame) == {frame[i]._procedure_key : i \in DOMAIN frame}

\* Rows of a frame as they are written: without the key column.
Written(frame) == [ i \in DOMAIN frame |-> without_fields(frame[i], {"_procedure_key"}) ]

\* The unseen rows whose key has no override, in file order.
NotOverridden(frame, map) ==
    SelectSeq(frame, LAMBDA row : row._procedure_key \notin DOMAIN map)

\* Every key of the map that occurs in the inputs is in the retrain rows, and
\* only with the label of the map.
OverridesApplied(map, keys, retrain) ==
    \A key \in DOMAIN map \cap keys :
        /\ \E i \in DOMAIN retrain : OutputKey(retrain[i]) = key
        /\ \A i \in DOMAIN retrain :
              OutputKey(retrain[i]) = key => retrain[i][LABEL_COLUMN] = map[key]

\* C28: after the retrain merge, every key of the override map that occurs
\* in seen or unseen is in the retrain set, and every retrain row of that key
\* has the override label; no unseen row with a key of the map is left in
\* the evaluation set, and the evaluation set is exactly the unseen rows
\* whose key is not in the map, in order, each with the label it had when
\* the merge was given it.
C28_OverridesAppliedAndPromoted ==
    MergeDone =>
        /\ OverridesApplied(OverrideMap, KeysOf(SeenFrame) \cup KeysOf(UnseenFrame),
                            RetrainRows)
        /\ \A i \in DOMAIN EvalRows : OutputKey(EvalRows[i]) \notin DOMAIN OverrideMap
        /\ EvalRows = Written(NotOverridden(UnseenFrame, OverrideMap))

\* A merge with overrides for keys of seen and of unseen rows: two unseen
\* rows are promoted with the override label and two stay for evaluation.
C28_Witness ==
    /\ MergeDone
    /\ Len(EvalRows) = 2
    /\ Len(UnseenFrame) = 4
    /\ \E i \in DOMAIN UnseenFrame :
          /\ UnseenFrame[i]._procedure_key \in DOMAIN OverrideMap
          /\ UnseenFrame[i][LABEL_COLUMN] # OverrideMap[UnseenFrame[i]._procedure_key]
          /\ \E j \in DOMAIN RetrainRows :
                /\ OutputKey(RetrainRows[j]) = UnseenFrame[i]._procedure_key
                /\ RetrainRows[j][LABEL_COLUMN] = OverrideMap[UnseenFrame[i]._procedure_key]
    /\ \E i \in DOMAIN SeenFrame : SeenFrame[i]._procedure_key \in DOMAIN OverrideMap


\* The rows the retrain set is drawn from: the seen rows followed by the
\* unseen rows whose key has an override.
Candidates(seen, unseen, map) ==
    seen \o SelectSeq(unseen, LAMBDA row : row._procedure_key \in DOMAIN map)

\* The last candidate row of a key: the row the deduplication keeps.
Kept(candidates, key) ==
    candidates[CHOOSE i \in DOMAIN candidates :
                  /\ candidates[i]._procedure_key = key
                  /\ \A j \in (i + 1)..Len(candidates) :
                        candidates[j]._procedure_key # key]

\* The kept row of the key is a true correction: its label differs from the
\* override of its key.
TrueCorrection(candidates, map, key) ==
    /\ key \in DOMAIN map
    /\ Kept(candidates, key)[LABEL_COLUMN] # map[key]

Occurrences(rows, key) == Cardinality({i \in DOMAIN rows : OutputKey(rows[i]) = key})

CorrectedKeys(candidates, map) ==
    {key \in KeysOf(candidates) : TrueCorrection(candidates, map, key)}

\* The keys of the retrain rows are those of the candidates; a key occurs
\* OVERRIDE_CORRECTION_MULTIPLIER times when its kept row is a true
\* correction and once otherwise.
WeightedOncePerKey(candidates, map, retrain) ==
    /\ {OutputKey(retrain[i]) : i \in DOMAIN retrain} = KeysOf(candidates)
    /\ \A key \in KeysOf(candidates) :
          Occurrences(retrain, key) =
              IF TrueCorrection(candidates, map, key)
              THEN OVERRIDE_CORRECTION_MULTIPLIER ELSE 1

\* C29: in the retrain set every procedure key occurs exactly once (of the
\* seen rows followed by the promoted unseen rows, the last of a key is
\* kept), except the keys whose kept row is a true correction, which occur
\* exactly 3 times; an override that confirms the label adds no copy; and
\* rows_added_by_weighting = corrected_rows * (multiplier - 1).
C29_OneRowPerKeyCorrectionsTripled ==
    MergeDone =>
        /\ WeightedOncePerKey(Candidates(SeenFrame, UnseenFrame, OverrideMap),
                              OverrideMap, RetrainRows)
        /\ LastRun.summary.corrected_rows_weighted =
               Cardinality(CorrectedKeys(Candidates(SeenFrame, UnseenFrame, OverrideMap),
                                         OverrideMap))
        /\ LastRun.summary.rows_added_by_weighting =
               LastRun.summary.corrected_rows_weighted
                   * (LastRun.summary.weighting_multiplier - 1)
        /\ LastRun.summary.weighting_multiplier = 3
        /\ LastRun.summary.retrain_rows = Len(RetrainRows)
        /\ Len(RetrainRows) =
               Cardinality(KeysOf(Candidates(SeenFrame, UnseenFrame, OverrideMap)))
                   + LastRun.summary.rows_added_by_weighting

\* A merge in which one key is corrected (3 rows), one override confirms the
\* label of its key (1 row), and a key has several candidate rows.
C29_Witness ==
    /\ MergeDone
    /\ LastRun.summary.corrected_rows_weighted = 1
    /\ LastRun.summary.rows_added_by_weighting = 2
    /\ \E key \in DOMAIN OverrideMap :
          /\ Occurrences(RetrainRows, key) = 3
          /\ Cardinality({i \in DOMAIN SeenFrame : SeenFrame[i]._procedure_key = key}) = 2
    /\ \E key \in DOMAIN OverrideMap :
          /\ key \in KeysOf(UnseenFrame)
          /\ Occurrences(RetrainRows, key) = 1


\* The rows of the review-labels table.
ReviewLabelRows == files.review_labels.content.rows

\* Two procedure cells that differ at most in case and in whitespace.
RECURSIVE Words(_, _)
Words(text, word) ==
    IF text = << >> THEN (IF word = << >> THEN << >> ELSE << word >>)
    ELSE IF Head(text) \in Whitespace
         THEN (IF word = << >> THEN << >> ELSE << word >>) \o Words(Tail(text), << >>)
         ELSE Words(Tail(text), Append(word, upper_char(Head(text))))

SameProcedure(a, b) == Words(str(a), << >>) = Words(str(b), << >>)

\* The rows with a procedure: a cell that is not blank.
Keyed(rows) == {i \in DOMAIN rows : Words(str(rows[i].procedure), << >>) # << >>}

\* The last row of the procedure of row i.
LastOf(rows, i) ==
    CHOOSE j \in Keyed(rows) :
        /\ SameProcedure(rows[j].procedure, rows[i].procedure)
        /\ \A k \in Keyed(rows) :
              SameProcedure(rows[k].procedure, rows[i].procedure) => k <= j

\* The map has one entry for each procedure, up to case and whitespace, and
\* its value is the canonical human_category of the last row of it.
OneEntryPerProcedure(map, rows) ==
    /\ Cardinality(DOMAIN map) = Cardinality({LastOf(rows, i) : i \in Keyed(rows)})
    /\ << >> \notin DOMAIN map
    /\ DOMAIN map = {normalize_procedure_key(rows[i].procedure) : i \in Keyed(rows)}
    /\ \A i \in Keyed(rows) :
          map[normalize_procedure_key(rows[i].procedure)] =
              normalize_category_label(
                  IF rows[LastOf(rows, i)].human_category = NaN
                  THEN <<"O","t","h","e","r"," ","(","p","r","o","c","e","d","u","r","e"," ","c","a","t",")">>
                  ELSE rows[LastOf(rows, i)].human_category)
    /\ \A key \in DOMAIN map :
          /\ map[key] = normalize_category_label(map[key])
          /\ \E m \in Taxonomy : map[key] = CategoryValue(m)

\* C30: the override map built from a review-labels table has exactly one
\* entry for each non-empty normalized procedure key (whitespace collapsed,
\* case ignored); of the records of one key the human_category of the last
\* in the table is stored; and every stored value is canonical under
\* normalize_category_label.
C30_OneOverridePerKeyLastWins ==
    (call.op = "load_override_map" /\ "map" \in DOMAIN call.result) =>
        OneEntryPerProcedure(call.result.map, ReviewLabelRows)

\* The table with "egd", "CABG  X2" and "EGD": two entries, the later
\* category for EGD, and the qualified member name stored as its value.
C30_Witness ==
    /\ call.op = "load_override_map"
    /\ "map" \in DOMAIN call.result
    /\ Len(ReviewLabelRows) = 3
    /\ DOMAIN call.result.map = { <<"E","G","D">>, <<"C","A","B","G"," ","X","2">> }
    /\ call.result.map[<<"E","G","D">>] = <<"V","a","g","i","n","a","l"," ","d","e","l">>
    /\ call.result.map[<<"C","A","B","G"," ","X","2">>] = <<"C","a","r","d","i","a","c"," ","w","i","t","h"," ","C","P","B">>

=============================================================================
